---- MODULE Spec2Model ----
(***************************************************************************)
(* Hybrid quantum-energy periodic system (Galactic-Elements, v6 with the   *)
(* v3 classifier for comparison).                                          *)
(*                                                                         *)
(* The allocator works on Python floats: int(1600 * atomic_mass),          *)
(* int(total * 0.55), ...  A Python float is an IEEE-754 binary64 value,   *)
(* so the model carries binary64 values exactly: a value is a 53-bit       *)
(* significand (five 11-bit limbs, least significant first) and a binary   *)
(* exponent; products, quotients and sums are rounded to nearest-even as   *)
(* the hardware does, and int() truncates.                                 *)
(***************************************************************************)
EXTENDS Integers, Sequences, FiniteSets

\* ------------------------------------------------------------------------
\* Bounds of the model
\* ------------------------------------------------------------------------

\* atomic masses 0.0005, 0.0010, ..., MaxMassUnits * 0.0005 are enumerated
\* (total_quanta 0, 1, 2, ... in steps of 0.8)
MaxMassUnits == 560

\* configurations of at most MaxConfigLen characters are enumerated
MaxConfigLen == 2

\* configurations made of at most MaxMarkers subshell markers are enumerated
MaxMarkers == 3

\* create_element is asked for every atomic number from -1 to MaxAtomicNumber
MaxAtomicNumber == 120

\* the caller makes at most MaxCalls calls in a row
MaxCalls == 2

\* build_system is called with max_elements from 1 to MaxElements
MaxElements == 2

\* report inputs: atomic_mass 0.0005 * n for n in 1..MaxReportUnits
MaxReportUnits == 40

\* v3 comparison inputs: atomic_mass 0.0005 * n for n in 1..MaxV3Units
MaxV3Units == 150

\* ------------------------------------------------------------------------
\* Unsigned multi-limb integers (limbs of 11 bits, least significant first)
\* ------------------------------------------------------------------------

LimbBits == 11
LimbBase == 2048
SigLimbs == 5
SigBits == 53

Limb(x, i) == IF i >= 1 /\ i <= Len(x) THEN x[i] ELSE 0

RECURSIVE Carry(_, _)
Carry(x, c) ==
    IF x = <<>>
    THEN IF c = 0 THEN <<>> ELSE <<c % LimbBase>> \o Carry(<<>>, c \div LimbBase)
    ELSE LET v == Head(x) + c
         IN  <<v % LimbBase>> \o Carry(Tail(x), v \div LimbBase)

ToLimbs(n) == Carry(<<n>>, 0)

RECURSIVE ColumnSum(_, _, _, _)
ColumnSum(x, y, k, i) ==
    IF i > Len(x) THEN 0
    ELSE Limb(x, i) * Limb(y, k + 1 - i) + ColumnSum(x, y, k, i + 1)

MulLimbs(x, y) ==
    Carry([k \in 1..(Len(x) + Len(y) - 1) |-> ColumnSum(x, y, k, 1)], 0)

\* x * 2^(LimbBits * k)
ShiftLimbs(x, k) == [i \in 1..k |-> 0] \o x

Reverse(x) == [i \in 1..Len(x) |-> x[Len(x) + 1 - i]]

\* long division of x by a small divisor d from limb i downwards; qs holds
\* the quotient limbs found so far, most significant first
RECURSIVE DivSmallLoop(_, _, _, _, _)
DivSmallLoop(x, d, i, rem, qs) ==
    IF i = 0 THEN [q |-> Reverse(qs), r |-> rem]
    ELSE LET cur == rem * LimbBase + x[i]
         IN  DivSmallLoop(x, d, i - 1, cur % d, qs \o <<cur \div d>>)

\* quotient and remainder of x by a small divisor d
DivSmall(x, d) == DivSmallLoop(x, d, Len(x), 0, <<>>)

RECURSIVE TopLimb(_)
TopLimb(x) ==
    IF x = <<>> THEN 0
    ELSE IF x[Len(x)] # 0 THEN Len(x)
    ELSE TopLimb(SubSeq(x, 1, Len(x) - 1))

RECURSIVE IntBitLen(_)
IntBitLen(v) == IF v = 0 THEN 0 ELSE 1 + IntBitLen(v \div 2)

BitLen(x) ==
    LET t == TopLimb(x)
    IN  IF t = 0 THEN 0 ELSE (t - 1) * LimbBits + IntBitLen(x[t])

Bit(x, i) ==
    IF i < 0 THEN 0 ELSE (Limb(x, (i \div LimbBits) + 1) \div (2 ^ (i % LimbBits))) % 2

\* some bit below bit n of x is set
LowBitsSet(x, n) ==
    IF n <= 0 THEN FALSE
    ELSE \/ \E i \in 1..(n \div LimbBits) : Limb(x, i) # 0
         \/ (Limb(x, (n \div LimbBits) + 1) % (2 ^ (n % LimbBits))) # 0

\* bits d .. d+52 of x as a significand (d may be negative: a left shift)
ShiftedSig(x, d) ==
    LET q == d \div LimbBits
        r == d % LimbBits
    IN  [l \in 1..SigLimbs |->
            LET lo == Limb(x, l + q) \div (2 ^ r)
                hi == (Limb(x, l + q + 1) % (2 ^ r)) * (2 ^ (LimbBits - r))
                v  == lo + hi
            IN  IF l = SigLimbs THEN v % 512 ELSE v]

\* ------------------------------------------------------------------------
\* binary64 values: [m |-> significand limbs, e |-> exponent], value m * 2^e
\* ------------------------------------------------------------------------

ZeroSig == <<0, 0, 0, 0, 0>>
FloatZero == [m |-> ZeroSig, e |-> 0]

\* the significand m1 with exponent d, renormalised when rounding up carried
\* into bit 53
Normalised(m1, d) ==
    IF m1[SigLimbs] >= 512
    THEN [m |-> <<0, 0, 0, 0, 256>>, e |-> d + 1]
    ELSE [m |-> m1, e |-> d]

\* the significand m0 plus one unit in the last place
Increment(m0) == Carry(<<m0[1] + 1>> \o Tail(m0), 0)

\* bits below bit d of x (and the sticky fraction) round upwards: the guard
\* bit is set and either something below it is, or bit d is odd
RoundsUp(x, sticky, d) ==
    Bit(x, d - 1) = 1 /\ (sticky \/ LowBitsSet(x, d - 1) \/ Bit(x, d) = 1)

\* x rounded to the 53 bits from bit d upwards
RoundAt(x, sticky, d) ==
    Normalised(IF RoundsUp(x, sticky, d)
               THEN Increment(ShiftedSig(x, d))
               ELSE ShiftedSig(x, d),
               d)

\* the float r scaled by 2^de
Scale(r, de) == [m |-> r.m, e |-> r.e + de]

\* round the integer x * 2^0 (plus a sticky fraction) to 53 significant bits,
\* to nearest, ties to even
RoundToDouble(x, sticky) ==
    IF BitLen(x) = 0 THEN FloatZero ELSE RoundAt(x, sticky, BitLen(x) - SigBits)

\* a quotient with a small divisor, rounded; the remainder is the sticky part
RoundSmallQuotient(qr) == RoundToDouble(qr.q, qr.r # 0)

\* the float a decimal literal num / 10^dec denotes (correctly rounded)
FloatLit(num, dec) ==
    IF num = 0 THEN FloatZero
    ELSE Scale(RoundSmallQuotient(DivSmall(ShiftLimbs(ToLimbs(num), 7), 10 ^ dec)),
               -(7 * LimbBits))

\* int -> float conversion of a non-negative int below 2^31 (exact)
IntToFloat(n) == RoundToDouble(ToLimbs(n), FALSE)

\* IEEE product
FloatMul(a, b) ==
    IF a.m = ZeroSig \/ b.m = ZeroSig THEN FloatZero
    ELSE Scale(RoundToDouble(MulLimbs(a.m, b.m), FALSE), a.e + b.e)

\* a literal num * 10^pow10 (an integer)
SciLit(num, pow10) == RoundToDouble(MulLimbs(ToLimbs(num), ToLimbs(10 ^ pow10)), FALSE)

\* x padded with zero limbs to n limbs
Pad(x, n) == [i \in 1..n |-> Limb(x, i)]

\* x >= y, both of n limbs
RECURSIVE GeqLimbs(_, _, _)
GeqLimbs(x, y, n) ==
    IF n = 0 THEN TRUE
    ELSE IF Limb(x, n) # Limb(y, n) THEN Limb(x, n) > Limb(y, n)
    ELSE GeqLimbs(x, y, n - 1)

\* x - y for x >= y, limb i onwards with a borrow
RECURSIVE SubFrom(_, _, _, _)
SubFrom(x, y, i, borrow) ==
    IF i > Len(x) THEN <<>>
    ELSE LET v == Limb(x, i) - Limb(y, i) - borrow
         IN  IF v < 0 THEN <<v + LimbBase>> \o SubFrom(x, y, i + 1, 1)
             ELSE <<v>> \o SubFrom(x, y, i + 1, 0)

SubLimbs(x, y) == SubFrom(x, y, 1, 0)

AddLimbs(x, y) ==
    LET n == IF Len(x) > Len(y) THEN Len(x) ELSE Len(y)
    IN  Carry([i \in 1..n |-> Limb(x, i) + Limb(y, i)], 0)

\* x * 2^k
ShiftLeftBits(x, k) ==
    ShiftLimbs(MulLimbs(x, <<2 ^ (k % LimbBits)>>), k \div LimbBits)

\* one quotient limb: the largest q with q * y <= rem, for rem < y * LimbBase
\* and a 53-bit y; estimated from the leading limbs, then corrected upwards
RECURSIVE FixQuotient(_, _, _)
FixQuotient(rem, y, q) ==
    IF GeqLimbs(rem, y, 6) THEN FixQuotient(SubLimbs(rem, y), y, q + 1)
    ELSE [q |-> q, r |-> rem]

QuotientLimb(rem, y) ==
    LET top  == Limb(rem, 4) + Limb(rem, 5) * LimbBase + Limb(rem, 6) * LimbBase * LimbBase
        ytop == Limb(y, 4) + Limb(y, 5) * LimbBase
        qhat == top \div (ytop + 1)
    IN  FixQuotient(SubLimbs(Pad(rem, 6), Pad(MulLimbs(y, <<qhat>>), 6)), Pad(y, 6), qhat)

\* long division of x by a 53-bit y from limb i downwards; qs holds the
\* quotient limbs found so far, most significant first
RECURSIVE DivLoop(_, _, _, _, _)
RECURSIVE DivStep(_, _, _, _, _)
DivLoop(x, y, i, rem, qs) ==
    IF i = 0 THEN [q |-> Reverse(qs), r |-> rem]
    ELSE DivStep(x, y, i, QuotientLimb(<<x[i]>> \o rem, y), qs)

\* limb i has given the quotient limb step.q and left the remainder step.r
DivStep(x, y, i, step, qs) ==
    DivLoop(x, y, i - 1, Pad(step.r, SigLimbs), qs \o <<step.q>>)

\* quotient and remainder of x by a 53-bit y
DivLimbs(x, y) == DivLoop(x, y, Len(x), ZeroSig, <<>>)

\* a long quotient, rounded; the remainder is the sticky part
RoundLongQuotient(qr) == RoundToDouble(qr.q, qr.r # ZeroSig)

\* IEEE quotient of non-negative floats; the callers raise ZeroDivisionError
\* before dividing by zero
FloatDiv(a, b) ==
    IF a.m = ZeroSig \/ b.m = ZeroSig THEN FloatZero
    ELSE Scale(RoundLongQuotient(DivLimbs(ShiftLimbs(a.m, 6), b.m)),
               a.e - b.e - 6 * LimbBits)

\* big + small for non-zero floats with big.e >= small.e
AddOrdered(big, small) ==
    IF big.e - small.e > SigBits + 2 THEN big
    ELSE Scale(RoundToDouble(AddLimbs(ShiftLeftBits(big.m, big.e - small.e), small.m),
                             FALSE),
               small.e)

\* IEEE sum of non-negative floats
FloatAdd(a, b) ==
    IF a.m = ZeroSig THEN b
    ELSE IF b.m = ZeroSig THEN a
    ELSE IF a.e >= b.e THEN AddOrdered(a, b)
    ELSE AddOrdered(b, a)

\* IEEE difference a - b of non-negative floats with a >= b
FloatSub(a, b) ==
    IF b.m = ZeroSig THEN a
    ELSE IF a.e - b.e > SigBits + 2 THEN a
    ELSE Scale(RoundToDouble(SubLimbs(ShiftLeftBits(a.m, a.e - b.e),
                                      Pad(b.m, Len(ShiftLeftBits(a.m, a.e - b.e)))),
                             FALSE),
               b.e)

\* a < b for non-negative floats
FloatLess(a, b) ==
    IF b.m = ZeroSig THEN FALSE
    ELSE IF a.m = ZeroSig THEN TRUE
    ELSE IF a.e # b.e THEN a.e < b.e
    ELSE ~GeqLimbs(a.m, b.m, SigLimbs)

\* the integer held by the three low limbs of s
LowInt(s) == s[1] + s[2] * LimbBase + s[3] * LimbBase * LimbBase

\* variant: int() replaced by rounding to the nearest integer
FloatToInt_Round(f) ==
    (IF f.e <= -SigBits THEN 0 ELSE LowInt(ShiftedSig(f.m, -f.e)))
    + Bit(f.m, -f.e - 1)

\* Python int(): truncation of a non-negative float below 2^31
FloatToInt(f) ==
    IF f.e <= -SigBits THEN 0 ELSE LowInt(ShiftedSig(f.m, -f.e))

\* int(n * f) as Python evaluates it for an int n and a float f
IntTimes(n, f) == FloatToInt(FloatMul(IntToFloat(n), f))


\* ------------------------------------------------------------------------
\* Enumerations and configuration tables (v6)
\* ------------------------------------------------------------------------

EnergyType == {"HEAT", "LIGHT", "MAGNETISM", "ELECTRICITY", "RADIOWAVES",
               "MICRO_GRAVITY", "MACRO_GRAVITY", "THERMONUCLEAR", "RADIOACTIVITY"}

ElementType == {"ACTIVE_METALS", "MEDIUM_METALS", "SEMI_METALS", "NON_METALS",
                "INERT_GASES"}

EnergyLevel == {"LEVEL_1", "LEVEL_2", "LEVEL_3"}

DOMINANT_ENERGY_TO_TYPE ==
    [en \in {"MAGNETISM", "ELECTRICITY", "RADIOWAVES", "HEAT", "LIGHT"} |->
        CASE en = "MAGNETISM"   -> "ACTIVE_METALS"
          [] en = "ELECTRICITY" -> "MEDIUM_METALS"
          [] en = "RADIOWAVES"  -> "SEMI_METALS"
          [] en = "HEAT"        -> "NON_METALS"
          [] en = "LIGHT"       -> "INERT_GASES"]

\* variant: Middle share mistyped as 0.30, the shares no longer sum to 1
LEVEL_ENERGY_DISTRIBUTION_Middle30 ==
    [l \in EnergyLevel |->
        CASE l = "LEVEL_3" -> FloatLit(55, 2)
          [] l = "LEVEL_2" -> FloatLit(30, 2)
          [] l = "LEVEL_1" -> FloatLit(12, 2)]

\* variant: Outer and Middle shares exchanged
LEVEL_ENERGY_DISTRIBUTION_Swapped ==
    [l \in EnergyLevel |->
        CASE l = "LEVEL_3" -> FloatLit(55, 2)
          [] l = "LEVEL_2" -> FloatLit(12, 2)
          [] l = "LEVEL_1" -> FloatLit(33, 2)]

LEVEL_ENERGY_DISTRIBUTION ==
    [l \in EnergyLevel |->
        CASE l = "LEVEL_3" -> FloatLit(55, 2)
          [] l = "LEVEL_2" -> FloatLit(33, 2)
          [] l = "LEVEL_1" -> FloatLit(12, 2)]

\* variant: Heat share mistyped as 0.45, the shares sum to 1.05
FIRST_LEVEL_ENERGY_RATIO_Heat45 ==
    [en \in {"HEAT", "LIGHT", "MAGNETISM", "ELECTRICITY", "RADIOWAVES"} |->
        CASE en = "HEAT"        -> FloatLit(45, 2)
          [] en = "LIGHT"       -> FloatLit(30, 2)
          [] en = "MAGNETISM"   -> FloatLit(20, 2)
          [] en = "ELECTRICITY" -> FloatLit(6, 2)
          [] en = "RADIOWAVES"  -> FloatLit(4, 2)]

FIRST_LEVEL_ENERGY_RATIO ==
    [en \in {"HEAT", "LIGHT", "MAGNETISM", "ELECTRICITY", "RADIOWAVES"} |->
        CASE en = "HEAT"        -> FloatLit(40, 2)
          [] en = "LIGHT"       -> FloatLit(30, 2)
          [] en = "MAGNETISM"   -> FloatLit(20, 2)
          [] en = "ELECTRICITY" -> FloatLit(6, 2)
          [] en = "RADIOWAVES"  -> FloatLit(4, 2)]

SECOND_LEVEL_ENERGY_RATIO ==
    [en \in {"THERMONUCLEAR", "RADIOACTIVITY", "MICRO_GRAVITY"} |->
        CASE en = "THERMONUCLEAR" -> FloatLit(50, 2)
          [] en = "RADIOACTIVITY" -> FloatLit(30, 2)
          [] en = "MICRO_GRAVITY" -> FloatLit(20, 2)]

THIRD_LEVEL_ENERGY_RATIO ==
    [en \in {"MACRO_GRAVITY", "MICRO_GRAVITY", "THERMONUCLEAR"} |->
        CASE en = "MACRO_GRAVITY" -> FloatLit(60, 2)
          [] en = "MICRO_GRAVITY" -> FloatLit(25, 2)
          [] en = "THERMONUCLEAR" -> FloatLit(15, 2)]

\* ------------------------------------------------------------------------
\* Strings are sequences of characters.  "sup1" .. "sup6" stand for the
\* superscript digits of the configuration notation.
\* ------------------------------------------------------------------------

Lower(ch) ==
    CASE ch = "S" -> "s"
      [] ch = "P" -> "p"
      [] ch = "D" -> "d"
      [] ch = "F" -> "f"
      [] ch = "A" -> "a"
      [] ch = "H" -> "h"
      [] ch = "K" -> "k"
      [] ch = "N" -> "n"
      [] ch = "R" -> "r"
      [] ch = "X" -> "x"
      [] OTHER    -> ch

StrLower(str) == [i \in 1..Len(str) |-> Lower(str[i])]

EndsWith(str, suffix) ==
    /\ Len(suffix) <= Len(str)
    /\ SubSeq(str, Len(str) - Len(suffix) + 1, Len(str)) = suffix

Contains(str, sub) ==
    \E i \in 1..(Len(str) - Len(sub) + 1) : SubSeq(str, i, i + Len(sub) - 1) = sub

DigitChar(d) ==
    CASE d = 0 -> "0" [] d = 1 -> "1" [] d = 2 -> "2" [] d = 3 -> "3" [] d = 4 -> "4"
      [] d = 5 -> "5" [] d = 6 -> "6" [] d = 7 -> "7" [] d = 8 -> "8" [] d = 9 -> "9"

\* str(n) of a non-negative int
RECURSIVE IntToStr(_)
IntToStr(n) ==
    IF n < 10 THEN <<DigitChar(n)>> ELSE IntToStr(n \div 10) \o <<DigitChar(n % 10)>>

RECURSIVE Join(_, _)
Join(sep, parts) ==
    IF parts = <<>> THEN <<>>
    ELSE IF Len(parts) = 1 THEN parts[1]
    ELSE parts[1] \o sep \o Join(sep, Tail(parts))

EnergyName(en) ==
    CASE en = "HEAT"          -> <<"H", "E", "A", "T">>
      [] en = "LIGHT"         -> <<"L", "I", "G", "H", "T">>
      [] en = "MAGNETISM"     -> <<"M", "A", "G", "N", "E", "T", "I", "S", "M">>
      [] en = "ELECTRICITY"   -> <<"E", "L", "E", "C", "T", "R", "I", "C", "I", "T", "Y">>
      [] en = "RADIOWAVES"    -> <<"R", "A", "D", "I", "O", "W", "A", "V", "E", "S">>
      [] en = "MICRO_GRAVITY" -> <<"M", "I", "C", "R", "O", "_", "G", "R", "A", "V", "I", "T", "Y">>
      [] en = "MACRO_GRAVITY" -> <<"M", "A", "C", "R", "O", "_", "G", "R", "A", "V", "I", "T", "Y">>
      [] en = "THERMONUCLEAR" -> <<"T", "H", "E", "R", "M", "O", "N", "U", "C", "L", "E", "A", "R">>
      [] en = "RADIOACTIVITY" -> <<"R", "A", "D", "I", "O", "A", "C", "T", "I", "V", "I", "T", "Y">>

\* dict.get(key, default)
DictGet(dict, key, default) == IF key \in DOMAIN dict THEN dict[key] ELSE default


\* ------------------------------------------------------------------------
\* ELEMENTS_DATA: (z, symbol, name, mass, config, isotope, stability,
\* ionization) per row; the columns the methods below read are carried
\* ------------------------------------------------------------------------

ELEMENTS_DATA ==
    <<
      [atomic_number |-> 1, atomic_mass |-> FloatLit(1008, 3),
       configuration |-> <<"1", "s", "sup1">>,
       stability |-> FloatLit(999, 3), ionization_energy |-> FloatLit(13598, 3)],
      [atomic_number |-> 2, atomic_mass |-> FloatLit(40026, 4),
       configuration |-> <<"1", "s", "sup2">>,
       stability |-> FloatLit(999, 3), ionization_energy |-> FloatLit(24587, 3)],
      [atomic_number |-> 3, atomic_mass |-> FloatLit(6941, 3),
       configuration |-> <<"[", "H", "e", "]", " ", "2", "s", "sup1">>,
       stability |-> FloatLit(999, 3), ionization_energy |-> FloatLit(5392, 3)],
      [atomic_number |-> 4, atomic_mass |-> FloatLit(90122, 4),
       configuration |-> <<"[", "H", "e", "]", " ", "2", "s", "sup2">>,
       stability |-> FloatLit(999, 3), ionization_energy |-> FloatLit(9323, 3)],
      [atomic_number |-> 5, atomic_mass |-> FloatLit(1081, 2),
       configuration |-> <<"[", "H", "e", "]", " ", "2", "s", "sup2", " ", "2", "p", "sup1">>,
       stability |-> FloatLit(999, 3), ionization_energy |-> FloatLit(8298, 3)],
      [atomic_number |-> 6, atomic_mass |-> FloatLit(12011, 3),
       configuration |-> <<"[", "H", "e", "]", " ", "2", "s", "sup2", " ", "2", "p", "sup2">>,
       stability |-> FloatLit(999, 3), ionization_energy |-> FloatLit(11260, 3)],
      [atomic_number |-> 7, atomic_mass |-> FloatLit(14007, 3),
       configuration |-> <<"[", "H", "e", "]", " ", "2", "s", "sup2", " ", "2", "p", "sup3">>,
       stability |-> FloatLit(999, 3), ionization_energy |-> FloatLit(14534, 3)],
      [atomic_number |-> 8, atomic_mass |-> FloatLit(15999, 3),
       configuration |-> <<"[", "H", "e", "]", " ", "2", "s", "sup2", " ", "2", "p", "sup4">>,
       stability |-> FloatLit(999, 3), ionization_energy |-> FloatLit(13618, 3)],
      [atomic_number |-> 9, atomic_mass |-> FloatLit(18998, 3),
       configuration |-> <<"[", "H", "e", "]", " ", "2", "s", "sup2", " ", "2", "p", "sup5">>,
       stability |-> FloatLit(999, 3), ionization_energy |-> FloatLit(17423, 3)],
      [atomic_number |-> 10, atomic_mass |-> FloatLit(20180, 3),
       configuration |-> <<"[", "H", "e", "]", " ", "2", "s", "sup2", " ", "2", "p", "sup6">>,
       stability |-> FloatLit(999, 3), ionization_energy |-> FloatLit(21565, 3)],
      [atomic_number |-> 11, atomic_mass |-> FloatLit(22990, 3),
       configuration |-> <<"[", "N", "e", "]", " ", "3", "s", "sup1">>,
       stability |-> FloatLit(999, 3), ionization_energy |-> FloatLit(5139, 3)],
      [atomic_number |-> 12, atomic_mass |-> FloatLit(24305, 3),
       configuration |-> <<"[", "N", "e", "]", " ", "3", "s", "sup2">>,
       stability |-> FloatLit(999, 3), ionization_energy |-> FloatLit(7646, 3)],
      [atomic_number |-> 13, atomic_mass |-> FloatLit(26982, 3),
       configuration |-> <<"[", "N", "e", "]", " ", "3", "s", "sup2", " ", "3", "p", "sup1">>,
       stability |-> FloatLit(999, 3), ionization_energy |-> FloatLit(5986, 3)],
      [atomic_number |-> 14, atomic_mass |-> FloatLit(28085, 3),
       configuration |-> <<"[", "N", "e", "]", " ", "3", "s", "sup2", " ", "3", "p", "sup2">>,
       stability |-> FloatLit(999, 3), ionization_energy |-> FloatLit(8152, 3)],
      [atomic_number |-> 15, atomic_mass |-> FloatLit(30974, 3),
       configuration |-> <<"[", "N", "e", "]", " ", "3", "s", "sup2", " ", "3", "p", "sup3">>,
       stability |-> FloatLit(999, 3), ionization_energy |-> FloatLit(10487, 3)],
      [atomic_number |-> 16, atomic_mass |-> FloatLit(3206, 2),
       configuration |-> <<"[", "N", "e", "]", " ", "3", "s", "sup2", " ", "3", "p", "sup4">>,
       stability |-> FloatLit(999, 3), ionization_energy |-> FloatLit(10360, 3)],
      [atomic_number |-> 17, atomic_mass |-> FloatLit(3545, 2),
       configuration |-> <<"[", "N", "e", "]", " ", "3", "s", "sup2", " ", "3", "p", "sup5">>,
       stability |-> FloatLit(999, 3), ionization_energy |-> FloatLit(12968, 3)],
      [atomic_number |-> 18, atomic_mass |-> FloatLit(39948, 3),
       configuration |-> <<"[", "N", "e", "]", " ", "3", "s", "sup2", " ", "3", "p", "sup6">>,
       stability |-> FloatLit(999, 3), ionization_energy |-> FloatLit(15760, 3)],
      [atomic_number |-> 19, atomic_mass |-> FloatLit(39098, 3),
       configuration |-> <<"[", "A", "r", "]", " ", "4", "s", "sup1">>,
       stability |-> FloatLit(999, 3), ionization_energy |-> FloatLit(4341, 3)],
      [atomic_number |-> 20, atomic_mass |-> FloatLit(40078, 3),
       configuration |-> <<"[", "A", "r", "]", " ", "4", "s", "sup2">>,
       stability |-> FloatLit(999, 3), ionization_energy |-> FloatLit(6113, 3)],
      [atomic_number |-> 21, atomic_mass |-> FloatLit(44956, 3),
       configuration |-> <<"[", "A", "r", "]", " ", "3", "d", "sup1", " ", "4", "s", "sup2">>,
       stability |-> FloatLit(999, 3), ionization_energy |-> FloatLit(6561, 3)],
      [atomic_number |-> 22, atomic_mass |-> FloatLit(47867, 3),
       configuration |-> <<"[", "A", "r", "]", " ", "3", "d", "sup2", " ", "4", "s", "sup2">>,
       stability |-> FloatLit(999, 3), ionization_energy |-> FloatLit(6828, 3)],
      [atomic_number |-> 23, atomic_mass |-> FloatLit(50942, 3),
       configuration |-> <<"[", "A", "r", "]", " ", "3", "d", "sup3", " ", "4", "s", "sup2">>,
       stability |-> FloatLit(999, 3), ionization_energy |-> FloatLit(6746, 3)],
      [atomic_number |-> 24, atomic_mass |-> FloatLit(51996, 3),
       configuration |-> <<"[", "A", "r", "]", " ", "3", "d", "sup5", " ", "4", "s", "sup1">>,
       stability |-> FloatLit(999, 3), ionization_energy |-> FloatLit(6767, 3)],
      [atomic_number |-> 25, atomic_mass |-> FloatLit(54938, 3),
       configuration |-> <<"[", "A", "r", "]", " ", "3", "d", "sup5", " ", "4", "s", "sup2">>,
       stability |-> FloatLit(999, 3), ionization_energy |-> FloatLit(7434, 3)],
      [atomic_number |-> 26, atomic_mass |-> FloatLit(55845, 3),
       configuration |-> <<"[", "A", "r", "]", " ", "3", "d", "sup6", " ", "4", "s", "sup2">>,
       stability |-> FloatLit(999, 3), ionization_energy |-> FloatLit(7902, 3)],
      [atomic_number |-> 27, atomic_mass |-> FloatLit(58933, 3),
       configuration |-> <<"[", "A", "r", "]", " ", "3", "d", "sup7", " ", "4", "s", "sup2">>,
       stability |-> FloatLit(999, 3), ionization_energy |-> FloatLit(7881, 3)],
      [atomic_number |-> 28, atomic_mass |-> FloatLit(58693, 3),
       configuration |-> <<"[", "A", "r", "]", " ", "3", "d", "sup8", " ", "4", "s", "sup2">>,
       stability |-> FloatLit(999, 3), ionization_energy |-> FloatLit(7640, 3)],
      [atomic_number |-> 29, atomic_mass |-> FloatLit(63546, 3),
       configuration |-> <<"[", "A", "r", "]", " ", "3", "d", "sup1", "sup0", " ", "4", "s", "sup1">>,
       stability |-> FloatLit(999, 3), ionization_energy |-> FloatLit(7726, 3)],
      [atomic_number |-> 30, atomic_mass |-> FloatLit(6538, 2),
       configuration |-> <<"[", "A", "r", "]", " ", "3", "d", "sup1", "sup0", " ", "4", "s", "sup2">>,
       stability |-> FloatLit(999, 3), ionization_energy |-> FloatLit(9394, 3)],
      [atomic_number |-> 31, atomic_mass |-> FloatLit(69723, 3),
       configuration |-> <<"[", "A", "r", "]", " ", "3", "d", "sup1", "sup0", " ", "4", "s", "sup2", " ", "4", "p", "sup1">>,
       stability |-> FloatLit(999, 3), ionization_energy |-> FloatLit(5999, 3)],
      [atomic_number |-> 32, atomic_mass |-> FloatLit(72630, 3),
       configuration |-> <<"[", "A", "r", "]", " ", "3", "d", "sup1", "sup0", " ", "4", "s", "sup2", " ", "4", "p", "sup2">>,
       stability |-> FloatLit(999, 3), ionization_energy |-> FloatLit(7899, 3)],
      [atomic_number |-> 33, atomic_mass |-> FloatLit(74922, 3),
       configuration |-> <<"[", "A", "r", "]", " ", "3", "d", "sup1", "sup0", " ", "4", "s", "sup2", " ", "4", "p", "sup3">>,
       stability |-> FloatLit(999, 3), ionization_energy |-> FloatLit(9789, 3)],
      [atomic_number |-> 34, atomic_mass |-> FloatLit(78971, 3),
       configuration |-> <<"[", "A", "r", "]", " ", "3", "d", "sup1", "sup0", " ", "4", "s", "sup2", " ", "4", "p", "sup4">>,
       stability |-> FloatLit(999, 3), ionization_energy |-> FloatLit(9752, 3)],
      [atomic_number |-> 35, atomic_mass |-> FloatLit(79904, 3),
       configuration |-> <<"[", "A", "r", "]", " ", "3", "d", "sup1", "sup0", " ", "4", "s", "sup2", " ", "4", "p", "sup5">>,
       stability |-> FloatLit(999, 3), ionization_energy |-> FloatLit(11814, 3)],
      [atomic_number |-> 36, atomic_mass |-> FloatLit(83798, 3),
       configuration |-> <<"[", "A", "r", "]", " ", "3", "d", "sup1", "sup0", " ", "4", "s", "sup2", " ", "4", "p", "sup6">>,
       stability |-> FloatLit(999, 3), ionization_energy |-> FloatLit(14000, 3)],
      [atomic_number |-> 37, atomic_mass |-> FloatLit(85468, 3),
       configuration |-> <<"[", "K", "r", "]", " ", "5", "s", "sup1">>,
       stability |-> FloatLit(999, 3), ionization_energy |-> FloatLit(4177, 3)],
      [atomic_number |-> 38, atomic_mass |-> FloatLit(8762, 2),
       configuration |-> <<"[", "K", "r", "]", " ", "5", "s", "sup2">>,
       stability |-> FloatLit(999, 3), ionization_energy |-> FloatLit(5695, 3)],
      [atomic_number |-> 39, atomic_mass |-> FloatLit(88906, 3),
       configuration |-> <<"[", "K", "r", "]", " ", "4", "d", "sup1", " ", "5", "s", "sup2">>,
       stability |-> FloatLit(999, 3), ionization_energy |-> FloatLit(6217, 3)],
      [atomic_number |-> 40, atomic_mass |-> FloatLit(91224, 3),
       configuration |-> <<"[", "K", "r", "]", " ", "4", "d", "sup2", " ", "5", "s", "sup2">>,
       stability |-> FloatLit(999, 3), ionization_energy |-> FloatLit(6634, 3)],
      [atomic_number |-> 41, atomic_mass |-> FloatLit(92906, 3),
       configuration |-> <<"[", "K", "r", "]", " ", "4", "d", "sup4", " ", "5", "s", "sup1">>,
       stability |-> FloatLit(999, 3), ionization_energy |-> FloatLit(6759, 3)],
      [atomic_number |-> 42, atomic_mass |-> FloatLit(9595, 2),
       configuration |-> <<"[", "K", "r", "]", " ", "4", "d", "sup5", " ", "5", "s", "sup1">>,
       stability |-> FloatLit(999, 3), ionization_energy |-> FloatLit(7092, 3)],
      [atomic_number |-> 43, atomic_mass |-> FloatLit(980, 1),
       configuration |-> <<"[", "K", "r", "]", " ", "4", "d", "sup5", " ", "5", "s", "sup2">>,
       stability |-> FloatLit(100, 3), ionization_energy |-> FloatLit(7280, 3)],
      [atomic_number |-> 44, atomic_mass |-> FloatLit(10107, 2),
       configuration |-> <<"[", "K", "r", "]", " ", "4", "d", "sup7", " ", "5", "s", "sup1">>,
       stability |-> FloatLit(999, 3), ionization_energy |-> FloatLit(7361, 3)],
      [atomic_number |-> 45, atomic_mass |-> FloatLit(10291, 2),
       configuration |-> <<"[", "K", "r", "]", " ", "4", "d", "sup8", " ", "5", "s", "sup1">>,
       stability |-> FloatLit(999, 3), ionization_energy |-> FloatLit(7459, 3)],
      [atomic_number |-> 46, atomic_mass |-> FloatLit(10642, 2),
       configuration |-> <<"[", "K", "r", "]", " ", "4", "d", "sup1", "sup0">>,
       stability |-> FloatLit(999, 3), ionization_energy |-> FloatLit(8337, 3)],
      [atomic_number |-> 47, atomic_mass |-> FloatLit(10787, 2),
       configuration |-> <<"[", "K", "r", "]", " ", "4", "d", "sup1", "sup0", " ", "5", "s", "sup1">>,
       stability |-> FloatLit(999, 3), ionization_energy |-> FloatLit(7576, 3)],
      [atomic_number |-> 48, atomic_mass |-> FloatLit(11241, 2),
       configuration |-> <<"[", "K", "r", "]", " ", "4", "d", "sup1", "sup0", " ", "5", "s", "sup2">>,
       stability |-> FloatLit(999, 3), ionization_energy |-> FloatLit(8994, 3)],
      [atomic_number |-> 49, atomic_mass |-> FloatLit(11482, 2),
       configuration |-> <<"[", "K", "r", "]", " ", "4", "d", "sup1", "sup0", " ", "5", "s", "sup2", " ", "5", "p", "sup1">>,
       stability |-> FloatLit(999, 3), ionization_energy |-> FloatLit(5786, 3)],
      [atomic_number |-> 50, atomic_mass |-> FloatLit(11871, 2),
       configuration |-> <<"[", "K", "r", "]", " ", "4", "d", "sup1", "sup0", " ", "5", "s", "sup2", " ", "5", "p", "sup2">>,
       stability |-> FloatLit(999, 3), ionization_energy |-> FloatLit(7344, 3)],
      [atomic_number |-> 51, atomic_mass |-> FloatLit(12176, 2),
       configuration |-> <<"[", "K", "r", "]", " ", "4", "d", "sup1", "sup0", " ", "5", "s", "sup2", " ", "5", "p", "sup3">>,
       stability |-> FloatLit(999, 3), ionization_energy |-> FloatLit(8641, 3)],
      [atomic_number |-> 52, atomic_mass |-> FloatLit(12760, 2),
       configuration |-> <<"[", "K", "r", "]", " ", "4", "d", "sup1", "sup0", " ", "5", "s", "sup2", " ", "5", "p", "sup4">>,
       stability |-> FloatLit(999, 3), ionization_energy |-> FloatLit(9010, 3)],
      [atomic_number |-> 53, atomic_mass |-> FloatLit(12690, 2),
       configuration |-> <<"[", "K", "r", "]", " ", "4", "d", "sup1", "sup0", " ", "5", "s", "sup2", " ", "5", "p", "sup5">>,
       stability |-> FloatLit(999, 3), ionization_energy |-> FloatLit(10451, 3)],
      [atomic_number |-> 54, atomic_mass |-> FloatLit(13129, 2),
       configuration |-> <<"[", "K", "r", "]", " ", "4", "d", "sup1", "sup0", " ", "5", "s", "sup2", " ", "5", "p", "sup6">>,
       stability |-> FloatLit(999, 3), ionization_energy |-> FloatLit(12130, 3)],
      [atomic_number |-> 55, atomic_mass |-> FloatLit(13291, 2),
       configuration |-> <<"[", "X", "e", "]", " ", "6", "s", "sup1">>,
       stability |-> FloatLit(999, 3), ionization_energy |-> FloatLit(3894, 3)],
      [atomic_number |-> 56, atomic_mass |-> FloatLit(13733, 2),
       configuration |-> <<"[", "X", "e", "]", " ", "6", "s", "sup2">>,
       stability |-> FloatLit(999, 3), ionization_energy |-> FloatLit(5212, 3)],
      [atomic_number |-> 57, atomic_mass |-> FloatLit(13891, 2),
       configuration |-> <<"[", "X", "e", "]", " ", "5", "d", "sup1", " ", "6", "s", "sup2">>,
       stability |-> FloatLit(999, 3), ionization_energy |-> FloatLit(5577, 3)],
      [atomic_number |-> 58, atomic_mass |-> FloatLit(14012, 2),
       configuration |-> <<"[", "X", "e", "]", " ", "4", "f", "sup1", " ", "5", "d", "sup1", " ", "6", "s", "sup2">>,
       stability |-> FloatLit(999, 3), ionization_energy |-> FloatLit(5539, 3)],
      [atomic_number |-> 59, atomic_mass |-> FloatLit(14091, 2),
       configuration |-> <<"[", "X", "e", "]", " ", "4", "f", "sup3", " ", "6", "s", "sup2">>,
       stability |-> FloatLit(999, 3), ionization_energy |-> FloatLit(5464, 3)],
      [atomic_number |-> 60, atomic_mass |-> FloatLit(14424, 2),
       configuration |-> <<"[", "X", "e", "]", " ", "4", "f", "sup4", " ", "6", "s", "sup2">>,
       stability |-> FloatLit(999, 3), ionization_energy |-> FloatLit(5525, 3)],
      [atomic_number |-> 61, atomic_mass |-> FloatLit(1450, 1),
       configuration |-> <<"[", "X", "e", "]", " ", "4", "f", "sup5", " ", "6", "s", "sup2">>,
       stability |-> FloatLit(100, 3), ionization_energy |-> FloatLit(5582, 3)],
      [atomic_number |-> 62, atomic_mass |-> FloatLit(15036, 2),
       configuration |-> <<"[", "X", "e", "]", " ", "4", "f", "sup6", " ", "6", "s", "sup2">>,
       stability |-> FloatLit(999, 3), ionization_energy |-> FloatLit(5644, 3)],
      [atomic_number |-> 63, atomic_mass |-> FloatLit(15196, 2),
       configuration |-> <<"[", "X", "e", "]", " ", "4", "f", "sup7", " ", "6", "s", "sup2">>,
       stability |-> FloatLit(999, 3), ionization_energy |-> FloatLit(5670, 3)],
      [atomic_number |-> 64, atomic_mass |-> FloatLit(15725, 2),
       configuration |-> <<"[", "X", "e", "]", " ", "4", "f", "sup7", " ", "5", "d", "sup1", " ", "6", "s", "sup2">>,
       stability |-> FloatLit(999, 3), ionization_energy |-> FloatLit(6150, 3)],
      [atomic_number |-> 65, atomic_mass |-> FloatLit(15893, 2),
       configuration |-> <<"[", "X", "e", "]", " ", "4", "f", "sup9", " ", "6", "s", "sup2">>,
       stability |-> FloatLit(999, 3), ionization_energy |-> FloatLit(5864, 3)],
      [atomic_number |-> 66, atomic_mass |-> FloatLit(16250, 2),
       configuration |-> <<"[", "X", "e", "]", " ", "4", "f", "sup1", "sup0", " ", "6", "s", "sup2">>,
       stability |-> FloatLit(999, 3), ionization_energy |-> FloatLit(5939, 3)],
      [atomic_number |-> 67, atomic_mass |-> FloatLit(16493, 2),
       configuration |-> <<"[", "X", "e", "]", " ", "4", "f", "sup1", "sup1", " ", "6", "s", "sup2">>,
       stability |-> FloatLit(999, 3), ionization_energy |-> FloatLit(6022, 3)],
      [atomic_number |-> 68, atomic_mass |-> FloatLit(16726, 2),
       configuration |-> <<"[", "X", "e", "]", " ", "4", "f", "sup1", "sup2", " ", "6", "s", "sup2">>,
       stability |-> FloatLit(999, 3), ionization_energy |-> FloatLit(6108, 3)],
      [atomic_number |-> 69, atomic_mass |-> FloatLit(16893, 2),
       configuration |-> <<"[", "X", "e", "]", " ", "4", "f", "sup1", "sup3", " ", "6", "s", "sup2">>,
       stability |-> FloatLit(999, 3), ionization_energy |-> FloatLit(6184, 3)],
      [atomic_number |-> 70, atomic_mass |-> FloatLit(17305, 2),
       configuration |-> <<"[", "X", "e", "]", " ", "4", "f", "sup1", "sup4", " ", "6", "s", "sup2">>,
       stability |-> FloatLit(999, 3), ionization_energy |-> FloatLit(6254, 3)],
      [atomic_number |-> 71, atomic_mass |-> FloatLit(17497, 2),
       configuration |-> <<"[", "X", "e", "]", " ", "4", "f", "sup1", "sup4", " ", "5", "d", "sup1", " ", "6", "s", "sup2">>,
       stability |-> FloatLit(999, 3), ionization_energy |-> FloatLit(5426, 3)],
      [atomic_number |-> 72, atomic_mass |-> FloatLit(17849, 2),
       configuration |-> <<"[", "X", "e", "]", " ", "4", "f", "sup1", "sup4", " ", "5", "d", "sup2", " ", "6", "s", "sup2">>,
       stability |-> FloatLit(999, 3), ionization_energy |-> FloatLit(6825, 3)],
      [atomic_number |-> 73, atomic_mass |-> FloatLit(18095, 2),
       configuration |-> <<"[", "X", "e", "]", " ", "4", "f", "sup1", "sup4", " ", "5", "d", "sup3", " ", "6", "s", "sup2">>,
       stability |-> FloatLit(999, 3), ionization_energy |-> FloatLit(7550, 3)],
      [atomic_number |-> 74, atomic_mass |-> FloatLit(18384, 2),
       configuration |-> <<"[", "X", "e", "]", " ", "4", "f", "sup1", "sup4", " ", "5", "d", "sup4", " ", "6", "s", "sup2">>,
       stability |-> FloatLit(999, 3), ionization_energy |-> FloatLit(7864, 3)],
      [atomic_number |-> 75, atomic_mass |-> FloatLit(18621, 2),
       configuration |-> <<"[", "X", "e", "]", " ", "4", "f", "sup1", "sup4", " ", "5", "d", "sup5", " ", "6", "s", "sup2">>,
       stability |-> FloatLit(999, 3), ionization_energy |-> FloatLit(7833, 3)],
      [atomic_number |-> 76, atomic_mass |-> FloatLit(19023, 2),
       configuration |-> <<"[", "X", "e", "]", " ", "4", "f", "sup1", "sup4", " ", "5", "d", "sup6", " ", "6", "s", "sup2">>,
       stability |-> FloatLit(999, 3), ionization_energy |-> FloatLit(8438, 3)],
      [atomic_number |-> 77, atomic_mass |-> FloatLit(19222, 2),
       configuration |-> <<"[", "X", "e", "]", " ", "4", "f", "sup1", "sup4", " ", "5", "d", "sup7", " ", "6", "s", "sup2">>,
       stability |-> FloatLit(999, 3), ionization_energy |-> FloatLit(8967, 3)],
      [atomic_number |-> 78, atomic_mass |-> FloatLit(19508, 2),
       configuration |-> <<"[", "X", "e", "]", " ", "4", "f", "sup1", "sup4", " ", "5", "d", "sup9", " ", "6", "s", "sup1">>,
       stability |-> FloatLit(999, 3), ionization_energy |-> FloatLit(8959, 3)],
      [atomic_number |-> 79, atomic_mass |-> FloatLit(19697, 2),
       configuration |-> <<"[", "X", "e", "]", " ", "4", "f", "sup1", "sup4", " ", "5", "d", "sup1", "sup0", " ", "6", "s", "sup1">>,
       stability |-> FloatLit(999, 3), ionization_energy |-> FloatLit(9226, 3)],
      [atomic_number |-> 80, atomic_mass |-> FloatLit(20059, 2),
       configuration |-> <<"[", "X", "e", "]", " ", "4", "f", "sup1", "sup4", " ", "5", "d", "sup1", "sup0", " ", "6", "s", "sup2">>,
       stability |-> FloatLit(999, 3), ionization_energy |-> FloatLit(10438, 3)],
      [atomic_number |-> 81, atomic_mass |-> FloatLit(20438, 2),
       configuration |-> <<"[", "X", "e", "]", " ", "4", "f", "sup1", "sup4", " ", "5", "d", "sup1", "sup0", " ", "6", "s", "sup2", " ", "6", "p", "sup1">>,
       stability |-> FloatLit(999, 3), ionization_energy |-> FloatLit(6108, 3)],
      [atomic_number |-> 82, atomic_mass |-> FloatLit(2072, 1),
       configuration |-> <<"[", "X", "e", "]", " ", "4", "f", "sup1", "sup4", " ", "5", "d", "sup1", "sup0", " ", "6", "s", "sup2", " ", "6", "p", "sup2">>,
       stability |-> FloatLit(999, 3), ionization_energy |-> FloatLit(7417, 3)],
      [atomic_number |-> 83, atomic_mass |-> FloatLit(20898, 2),
       configuration |-> <<"[", "X", "e", "]", " ", "4", "f", "sup1", "sup4", " ", "5", "d", "sup1", "sup0", " ", "6", "s", "sup2", " ", "6", "p", "sup3">>,
       stability |-> FloatLit(999, 3), ionization_energy |-> FloatLit(7289, 3)],
      [atomic_number |-> 84, atomic_mass |-> FloatLit(2090, 1),
       configuration |-> <<"[", "X", "e", "]", " ", "4", "f", "sup1", "sup4", " ", "5", "d", "sup1", "sup0", " ", "6", "s", "sup2", " ", "6", "p", "sup4">>,
       stability |-> FloatLit(100, 3), ionization_energy |-> FloatLit(8417, 3)],
      [atomic_number |-> 85, atomic_mass |-> FloatLit(2100, 1),
       configuration |-> <<"[", "X", "e", "]", " ", "4", "f", "sup1", "sup4", " ", "5", "d", "sup1", "sup0", " ", "6", "s", "sup2", " ", "6", "p", "sup5">>,
       stability |-> FloatLit(100, 3), ionization_energy |-> FloatLit(9500, 3)],
      [atomic_number |-> 86, atomic_mass |-> FloatLit(2220, 1),
       configuration |-> <<"[", "X", "e", "]", " ", "4", "f", "sup1", "sup4", " ", "5", "d", "sup1", "sup0", " ", "6", "s", "sup2", " ", "6", "p", "sup6">>,
       stability |-> FloatLit(100, 3), ionization_energy |-> FloatLit(10748, 3)],
      [atomic_number |-> 87, atomic_mass |-> FloatLit(2230, 1),
       configuration |-> <<"[", "R", "n", "]", " ", "7", "s", "sup1">>,
       stability |-> FloatLit(100, 3), ionization_energy |-> FloatLit(4073, 3)],
      [atomic_number |-> 88, atomic_mass |-> FloatLit(2260, 1),
       configuration |-> <<"[", "R", "n", "]", " ", "7", "s", "sup2">>,
       stability |-> FloatLit(100, 3), ionization_energy |-> FloatLit(5279, 3)],
      [atomic_number |-> 89, atomic_mass |-> FloatLit(2270, 1),
       configuration |-> <<"[", "R", "n", "]", " ", "6", "d", "sup1", " ", "7", "s", "sup2">>,
       stability |-> FloatLit(100, 3), ionization_energy |-> FloatLit(5170, 3)],
      [atomic_number |-> 90, atomic_mass |-> FloatLit(23204, 2),
       configuration |-> <<"[", "R", "n", "]", " ", "6", "d", "sup2", " ", "7", "s", "sup2">>,
       stability |-> FloatLit(999, 3), ionization_energy |-> FloatLit(6307, 3)],
      [atomic_number |-> 91, atomic_mass |-> FloatLit(23104, 2),
       configuration |-> <<"[", "R", "n", "]", " ", "5", "f", "sup2", " ", "6", "d", "sup1", " ", "7", "s", "sup2">>,
       stability |-> FloatLit(100, 3), ionization_energy |-> FloatLit(5890, 3)],
      [atomic_number |-> 92, atomic_mass |-> FloatLit(23803, 2),
       configuration |-> <<"[", "R", "n", "]", " ", "5", "f", "sup3", " ", "6", "d", "sup1", " ", "7", "s", "sup2">>,
       stability |-> FloatLit(999, 3), ionization_energy |-> FloatLit(6194, 3)],
      [atomic_number |-> 93, atomic_mass |-> FloatLit(2370, 1),
       configuration |-> <<"[", "R", "n", "]", " ", "5", "f", "sup4", " ", "6", "d", "sup1", " ", "7", "s", "sup2">>,
       stability |-> FloatLit(100, 3), ionization_energy |-> FloatLit(6266, 3)],
      [atomic_number |-> 94, atomic_mass |-> FloatLit(2440, 1),
       configuration |-> <<"[", "R", "n", "]", " ", "5", "f", "sup6", " ", "7", "s", "sup2">>,
       stability |-> FloatLit(100, 3), ionization_energy |-> FloatLit(6026, 3)],
      [atomic_number |-> 95, atomic_mass |-> FloatLit(2430, 1),
       configuration |-> <<"[", "R", "n", "]", " ", "5", "f", "sup7", " ", "7", "s", "sup2">>,
       stability |-> FloatLit(100, 3), ionization_energy |-> FloatLit(5974, 3)],
      [atomic_number |-> 96, atomic_mass |-> FloatLit(2470, 1),
       configuration |-> <<"[", "R", "n", "]", " ", "5", "f", "sup7", " ", "6", "d", "sup1", " ", "7", "s", "sup2">>,
       stability |-> FloatLit(100, 3), ionization_energy |-> FloatLit(5992, 3)],
      [atomic_number |-> 97, atomic_mass |-> FloatLit(2470, 1),
       configuration |-> <<"[", "R", "n", "]", " ", "5", "f", "sup9", " ", "7", "s", "sup2">>,
       stability |-> FloatLit(100, 3), ionization_energy |-> FloatLit(6198, 3)],
      [atomic_number |-> 98, atomic_mass |-> FloatLit(2510, 1),
       configuration |-> <<"[", "R", "n", "]", " ", "5", "f", "sup1", "sup0", " ", "7", "s", "sup2">>,
       stability |-> FloatLit(100, 3), ionization_energy |-> FloatLit(6282, 3)],
      [atomic_number |-> 99, atomic_mass |-> FloatLit(2520, 1),
       configuration |-> <<"[", "R", "n", "]", " ", "5", "f", "sup1", "sup1", " ", "7", "s", "sup2">>,
       stability |-> FloatLit(100, 3), ionization_energy |-> FloatLit(6420, 3)],
      [atomic_number |-> 100, atomic_mass |-> FloatLit(2570, 1),
       configuration |-> <<"[", "R", "n", "]", " ", "5", "f", "sup1", "sup2", " ", "7", "s", "sup2">>,
       stability |-> FloatLit(100, 3), ionization_energy |-> FloatLit(6500, 3)],
      [atomic_number |-> 101, atomic_mass |-> FloatLit(2580, 1),
       configuration |-> <<"[", "R", "n", "]", " ", "5", "f", "sup1", "sup3", " ", "7", "s", "sup2">>,
       stability |-> FloatLit(100, 3), ionization_energy |-> FloatLit(6580, 3)],
      [atomic_number |-> 102, atomic_mass |-> FloatLit(2590, 1),
       configuration |-> <<"[", "R", "n", "]", " ", "5", "f", "sup1", "sup4", " ", "7", "s", "sup2">>,
       stability |-> FloatLit(100, 3), ionization_energy |-> FloatLit(6650, 3)],
      [atomic_number |-> 103, atomic_mass |-> FloatLit(2620, 1),
       configuration |-> <<"[", "R", "n", "]", " ", "5", "f", "sup1", "sup4", " ", "7", "s", "sup2", " ", "7", "p", "sup1">>,
       stability |-> FloatLit(100, 3), ionization_energy |-> FloatLit(4900, 3)],
      [atomic_number |-> 104, atomic_mass |-> FloatLit(2670, 1),
       configuration |-> <<"[", "R", "n", "]", " ", "5", "f", "sup1", "sup4", " ", "6", "d", "sup2", " ", "7", "s", "sup2">>,
       stability |-> FloatLit(10, 3), ionization_energy |-> FloatLit(6000, 3)],
      [atomic_number |-> 105, atomic_mass |-> FloatLit(2680, 1),
       configuration |-> <<"[", "R", "n", "]", " ", "5", "f", "sup1", "sup4", " ", "6", "d", "sup3", " ", "7", "s", "sup2">>,
       stability |-> FloatLit(10, 3), ionization_energy |-> FloatLit(6800, 3)],
      [atomic_number |-> 106, atomic_mass |-> FloatLit(2690, 1),
       configuration |-> <<"[", "R", "n", "]", " ", "5", "f", "sup1", "sup4", " ", "6", "d", "sup4", " ", "7", "s", "sup2">>,
       stability |-> FloatLit(10, 3), ionization_energy |-> FloatLit(7900, 3)],
      [atomic_number |-> 107, atomic_mass |-> FloatLit(2700, 1),
       configuration |-> <<"[", "R", "n", "]", " ", "5", "f", "sup1", "sup4", " ", "6", "d", "sup5", " ", "7", "s", "sup2">>,
       stability |-> FloatLit(10, 3), ionization_energy |-> FloatLit(7900, 3)],
      [atomic_number |-> 108, atomic_mass |-> FloatLit(2770, 1),
       configuration |-> <<"[", "R", "n", "]", " ", "5", "f", "sup1", "sup4", " ", "6", "d", "sup6", " ", "7", "s", "sup2">>,
       stability |-> FloatLit(10, 3), ionization_energy |-> FloatLit(8300, 3)],
      [atomic_number |-> 109, atomic_mass |-> FloatLit(2780, 1),
       configuration |-> <<"[", "R", "n", "]", " ", "5", "f", "sup1", "sup4", " ", "6", "d", "sup7", " ", "7", "s", "sup2">>,
       stability |-> FloatLit(10, 3), ionization_energy |-> FloatLit(8400, 3)],
      [atomic_number |-> 110, atomic_mass |-> FloatLit(2810, 1),
       configuration |-> <<"[", "R", "n", "]", " ", "5", "f", "sup1", "sup4", " ", "6", "d", "sup7", " ", "7", "s", "sup2">>,
       stability |-> FloatLit(10, 3), ionization_energy |-> FloatLit(7600, 3)],
      [atomic_number |-> 111, atomic_mass |-> FloatLit(2820, 1),
       configuration |-> <<"[", "R", "n", "]", " ", "5", "f", "sup1", "sup4", " ", "6", "d", "sup9", " ", "7", "s", "sup2">>,
       stability |-> FloatLit(10, 3), ionization_energy |-> FloatLit(7700, 3)],
      [atomic_number |-> 112, atomic_mass |-> FloatLit(2850, 1),
       configuration |-> <<"[", "R", "n", "]", " ", "5", "f", "sup1", "sup4", " ", "6", "d", "sup1", "sup0", " ", "7", "s", "sup2">>,
       stability |-> FloatLit(10, 3), ionization_energy |-> FloatLit(8900, 3)],
      [atomic_number |-> 113, atomic_mass |-> FloatLit(2860, 1),
       configuration |-> <<"[", "R", "n", "]", " ", "5", "f", "sup1", "sup4", " ", "6", "d", "sup1", "sup0", " ", "7", "s", "sup2", " ", "7", "p", "sup1">>,
       stability |-> FloatLit(10, 3), ionization_energy |-> FloatLit(7000, 3)],
      [atomic_number |-> 114, atomic_mass |-> FloatLit(2890, 1),
       configuration |-> <<"[", "R", "n", "]", " ", "5", "f", "sup1", "sup4", " ", "6", "d", "sup1", "sup0", " ", "7", "s", "sup2", " ", "7", "p", "sup2">>,
       stability |-> FloatLit(10, 3), ionization_energy |-> FloatLit(8300, 3)],
      [atomic_number |-> 115, atomic_mass |-> FloatLit(2900, 1),
       configuration |-> <<"[", "R", "n", "]", " ", "5", "f", "sup1", "sup4", " ", "6", "d", "sup1", "sup0", " ", "7", "s", "sup2", " ", "7", "p", "sup3">>,
       stability |-> FloatLit(10, 3), ionization_energy |-> FloatLit(5800, 3)],
      [atomic_number |-> 116, atomic_mass |-> FloatLit(2930, 1),
       configuration |-> <<"[", "R", "n", "]", " ", "5", "f", "sup1", "sup4", " ", "6", "d", "sup1", "sup0", " ", "7", "s", "sup2", " ", "7", "p", "sup4">>,
       stability |-> FloatLit(10, 3), ionization_energy |-> FloatLit(7500, 3)],
      [atomic_number |-> 117, atomic_mass |-> FloatLit(2940, 1),
       configuration |-> <<"[", "R", "n", "]", " ", "5", "f", "sup1", "sup4", " ", "6", "d", "sup1", "sup0", " ", "7", "s", "sup2", " ", "7", "p", "sup5">>,
       stability |-> FloatLit(10, 3), ionization_energy |-> FloatLit(7700, 3)],
      [atomic_number |-> 118, atomic_mass |-> FloatLit(2940, 1),
       configuration |-> <<"[", "R", "n", "]", " ", "5", "f", "sup1", "sup4", " ", "6", "d", "sup1", "sup0", " ", "7", "s", "sup2", " ", "7", "p", "sup6">>,
       stability |-> FloatLit(10, 3), ionization_energy |-> FloatLit(8910, 3)]
    >>

\* ------------------------------------------------------------------------
\* State
\* ------------------------------------------------------------------------

VARIABLES
    pc,     \* position of the v6 constructor (HybridElement.__post_init__)
    self,   \* the v6 HybridElement under construction
    pc3,    \* position of the v3 constructor for the same record
    self3,  \* the v3 HybridElement under construction
    heap,   \* the QuantumEnergyProfile objects, by reference
    frame,  \* the calls in progress: build_system's loop, create_element's
            \* argument, and the reference self.energy_profile holds
    results,        \* the caller's create_element / HybridElement calls and what they returned
    elements_data,  \* the module-level list ELEMENTS_DATA
    system,         \* the HybridPeriodicSystem: elements and clusters
    query,          \* the get_total_energy_quanta call now returning
    driver,         \* the calls the caller may still make
    report          \* what the last report method computed

\* what the constructor's steps leave alone
callerVars == <<results, elements_data, system, query, driver, report>>

vars == <<pc, self, pc3, self3, heap, frame, results, elements_data, system, query, driver,
          report>>

\* ------------------------------------------------------------------------
\* HybridElement._calculate_energy_profile (v6)
\* ------------------------------------------------------------------------

base_quanta == 1600

\* total_calculated = level_1_quanta + level_2_quanta + level_3_quanta;
\* if total_calculated != total: level_3_quanta += total - total_calculated
Reconciled(total, level_3_quanta, level_2_quanta, level_1_quanta) ==
    [l \in EnergyLevel |->
        CASE l = "LEVEL_1" -> level_1_quanta
          [] l = "LEVEL_2" -> level_2_quanta
          [] l = "LEVEL_3" ->
                IF level_1_quanta + level_2_quanta + level_3_quanta # total
                THEN level_3_quanta
                       + (total - (level_1_quanta + level_2_quanta + level_3_quanta))
                ELSE level_3_quanta]

\* variant: no reconciliation (the v3 level split)
LevelTotals_NoReconcile(total) ==
    [l \in EnergyLevel |-> IntTimes(total, LEVEL_ENERGY_DISTRIBUTION[l])]

\* variant: the shortfall is added to LEVEL_1 instead of LEVEL_3
LevelTotals_OuterReconcile(total) ==
    LET level_3_quanta == IntTimes(total, LEVEL_ENERGY_DISTRIBUTION["LEVEL_3"])
        level_2_quanta == IntTimes(total, LEVEL_ENERGY_DISTRIBUTION["LEVEL_2"])
        level_1_quanta == IntTimes(total, LEVEL_ENERGY_DISTRIBUTION["LEVEL_1"])
        total_calculated == level_1_quanta + level_2_quanta + level_3_quanta
    IN  [l \in EnergyLevel |->
            CASE l = "LEVEL_1" -> level_1_quanta + (total - total_calculated)
              [] l = "LEVEL_2" -> level_2_quanta
              [] l = "LEVEL_3" -> level_3_quanta]

\* variant: the shortfall is added to LEVEL_2 instead of LEVEL_3
LevelTotals_MiddleReconcile(total) ==
    LET level_3_quanta == IntTimes(total, LEVEL_ENERGY_DISTRIBUTION["LEVEL_3"])
        level_2_quanta == IntTimes(total, LEVEL_ENERGY_DISTRIBUTION["LEVEL_2"])
        level_1_quanta == IntTimes(total, LEVEL_ENERGY_DISTRIBUTION["LEVEL_1"])
        total_calculated == level_1_quanta + level_2_quanta + level_3_quanta
    IN  [l \in EnergyLevel |->
            CASE l = "LEVEL_1" -> level_1_quanta
              [] l = "LEVEL_2" -> level_2_quanta + (total - total_calculated)
              [] l = "LEVEL_3" -> level_3_quanta]

\* the three level totals with the shortfall reconciled into LEVEL_3
LevelTotals(total) ==
    Reconciled(total,
               IntTimes(total, LEVEL_ENERGY_DISTRIBUTION["LEVEL_3"]),
               IntTimes(total, LEVEL_ENERGY_DISTRIBUTION["LEVEL_2"]),
               IntTimes(total, LEVEL_ENERGY_DISTRIBUTION["LEVEL_1"]))

LevelRatio(l) ==
    CASE l = "LEVEL_1" -> FIRST_LEVEL_ENERGY_RATIO
      [] l = "LEVEL_2" -> SECOND_LEVEL_ENERGY_RATIO
      [] l = "LEVEL_3" -> THIRD_LEVEL_ENERGY_RATIO

\* for energy, ratio in ratios.items(): int(level_quanta * ratio)
Distribution(level_quanta, ratios) ==
    [en \in DOMAIN ratios |-> IntTimes(level_quanta, ratios[en])]

\* EnergyLevelQuanta(level, level_quanta) with its energy_distribution filled
LevelQuanta(l, level_quanta) ==
    [level |-> l,
     total_quanta |-> level_quanta,
     energy_distribution |-> Distribution(level_quanta, LevelRatio(l))]

\* variant: the categories are split before the shortfall is added, the
\* stored level totals are the reconciled ones
Levels_SplitBeforeReconcile(total) ==
    LET totals == LevelTotals(total)
    IN  [l \in EnergyLevel |->
            [LevelQuanta(l, IntTimes(total, LEVEL_ENERGY_DISTRIBUTION[l]))
                EXCEPT !.total_quanta = totals[l]]]

\* the level_quanta dict: each level's record built from its final total
Levels(total) ==
    LET totals == LevelTotals(total)
    IN  [l \in EnergyLevel |-> LevelQuanta(l, totals[l])]

\* eV -> Hz factor and the reference ionization energy (helium's)
EvToHz == SciLit(2417989, 8)
ReferenceIonization == FloatLit(24587, 3)

\* variant: the Outer share is weighted 0.3 instead of 0.2
VibrationalCoefficient_OuterWeight03(stability, level1_total, total, ionization_energy) ==
    FloatAdd(
        FloatAdd(FloatMul(stability, FloatLit(6, 1)),
                 FloatMul(FloatDiv(IntToFloat(level1_total), IntToFloat(total)),
                          FloatLit(3, 1))),
        FloatMul(FloatDiv(ionization_energy, ReferenceIonization), FloatLit(2, 1)))

\* stability * 0.6 + (level1.total_quanta / total) * 0.2
\*                 + (ionization_energy / 24.587) * 0.2, for total # 0
VibrationalCoefficient(stability, level1_total, total, ionization_energy) ==
    FloatAdd(
        FloatAdd(FloatMul(stability, FloatLit(6, 1)),
                 FloatMul(FloatDiv(IntToFloat(level1_total), IntToFloat(total)),
                          FloatLit(2, 1))),
        FloatMul(FloatDiv(ionization_energy, ReferenceIonization), FloatLit(2, 1)))

\* variant: the atomic number adds to the total
TotalOf_PlusAtomicNumber(element) ==
    IntTimes(base_quanta, element.atomic_mass) + element.atomic_number

\* total = int(base_quanta * self.atomic_mass)
TotalOf(element) == IntTimes(base_quanta, element.atomic_mass)

CalculateEnergyProfile ==
    /\ pc = "new"
    /\ \E total \in {TotalOf(self)},
          resonance \in {FloatMul(self.electrons.ionization_energy, EvToHz)} :
       \E levels \in {Levels(total)} :
           IF total = 0
           THEN \* level1.total_quanta / total raises ZeroDivisionError:
                \* vibrational_coefficient is not assigned, __post_init__ ends
                /\ self' = [self EXCEPT !.energy_profile.total_quanta = total,
                                        !.energy_profile.level_quanta = levels,
                                        !.energy_profile.resonance_frequency = resonance]
                /\ pc' = "raised"
           ELSE /\ self' = [self EXCEPT
                               !.energy_profile.total_quanta = total,
                               !.energy_profile.level_quanta = levels,
                               !.energy_profile.resonance_frequency = resonance,
                               !.energy_profile.vibrational_coefficient =
                                   VibrationalCoefficient(
                                       self.nucleus.stability,
                                       levels["LEVEL_1"].total_quanta, total,
                                       self.electrons.ionization_energy)]
                /\ pc' = "profiled"
    \* self.energy_profile is a reference: the writes land in the shared object
    /\ heap' = [heap EXCEPT ![frame.profile] = self'.energy_profile]
    /\ UNCHANGED <<pc3, self3, frame, callerVars>>

\* ------------------------------------------------------------------------
\* HybridElement._determine_element_type (v6)
\* ------------------------------------------------------------------------

p6 == <<"p", "sup6">>
p5 == <<"p", "sup5">>
p4 == <<"p", "sup4">>
p3 == <<"p", "sup3">>
p2 == <<"p", "sup2">>
p1 == <<"p", "sup1">>
s1 == <<"s", "sup1">>
s2 == <<"s", "sup2">>

\* variant: the hydrogen exception is tested after the configuration rules
Classify_HydrogenLast(atomic_number, configuration) ==
    LET config == StrLower(configuration)
    IN  IF EndsWith(config, p6)
        THEN [dominant_energy |-> "LIGHT", element_type |-> "INERT_GASES"]
        ELSE IF \E x \in {p5, p4, p3} : Contains(config, x)
        THEN [dominant_energy |-> "HEAT", element_type |-> "NON_METALS"]
        ELSE IF \E x \in {p1, p2} : Contains(config, x)
        THEN [dominant_energy |-> "RADIOWAVES", element_type |-> "SEMI_METALS"]
        ELSE IF EndsWith(config, s1)
        THEN [dominant_energy |-> "MAGNETISM", element_type |-> "ACTIVE_METALS"]
        ELSE IF atomic_number = 1
        THEN [dominant_energy |-> "HEAT", element_type |-> "NON_METALS"]
        ELSE [dominant_energy |-> "ELECTRICITY", element_type |-> "MEDIUM_METALS"]

\* variant: the p3/p4/p5 rule is tested before the p6 rule
Classify_HeatBeforeLight(atomic_number, configuration) ==
    LET config == StrLower(configuration)
    IN  IF atomic_number = 1
        THEN [dominant_energy |-> "HEAT", element_type |-> "NON_METALS"]
        ELSE IF \E x \in {p5, p4, p3} : Contains(config, x)
        THEN [dominant_energy |-> "HEAT", element_type |-> "NON_METALS"]
        ELSE IF EndsWith(config, p6)
        THEN [dominant_energy |-> "LIGHT", element_type |-> "INERT_GASES"]
        ELSE IF \E x \in {p1, p2} : Contains(config, x)
        THEN [dominant_energy |-> "RADIOWAVES", element_type |-> "SEMI_METALS"]
        ELSE IF EndsWith(config, s1)
        THEN [dominant_energy |-> "MAGNETISM", element_type |-> "ACTIVE_METALS"]
        ELSE [dominant_energy |-> "ELECTRICITY", element_type |-> "MEDIUM_METALS"]

\* variant: the Radiowaves branch assigns the MediumMetals cluster
Classify_RadiowavesMediumMetals(atomic_number, configuration) ==
    LET config == StrLower(configuration)
    IN  IF atomic_number = 1
        THEN [dominant_energy |-> "HEAT", element_type |-> "NON_METALS"]
        ELSE IF EndsWith(config, p6)
        THEN [dominant_energy |-> "LIGHT", element_type |-> "INERT_GASES"]
        ELSE IF \E x \in {p5, p4, p3} : Contains(config, x)
        THEN [dominant_energy |-> "HEAT", element_type |-> "NON_METALS"]
        ELSE IF \E x \in {p1, p2} : Contains(config, x)
        THEN [dominant_energy |-> "RADIOWAVES", element_type |-> "MEDIUM_METALS"]
        ELSE IF EndsWith(config, s1)
        THEN [dominant_energy |-> "MAGNETISM", element_type |-> "ACTIVE_METALS"]
        ELSE [dominant_energy |-> "ELECTRICITY", element_type |-> "MEDIUM_METALS"]

\* variant: v3's rule for a filled outer s pair without p, d, f is kept
Classify_FilledPairRule(atomic_number, configuration) ==
    LET config == StrLower(configuration)
    IN  IF atomic_number = 1
        THEN [dominant_energy |-> "HEAT", element_type |-> "NON_METALS"]
        ELSE IF EndsWith(config, s2)
                  /\ ~\E x \in {<<"p">>, <<"d">>, <<"f">>} : Contains(config, x)
        THEN [dominant_energy |-> "MAGNETISM", element_type |-> "ACTIVE_METALS"]
        ELSE IF EndsWith(config, p6)
        THEN [dominant_energy |-> "LIGHT", element_type |-> "INERT_GASES"]
        ELSE IF \E x \in {p5, p4, p3} : Contains(config, x)
        THEN [dominant_energy |-> "HEAT", element_type |-> "NON_METALS"]
        ELSE IF \E x \in {p1, p2} : Contains(config, x)
        THEN [dominant_energy |-> "RADIOWAVES", element_type |-> "SEMI_METALS"]
        ELSE IF EndsWith(config, s1)
        THEN [dominant_energy |-> "MAGNETISM", element_type |-> "ACTIVE_METALS"]
        ELSE [dominant_energy |-> "ELECTRICITY", element_type |-> "MEDIUM_METALS"]

\* variant: helium is taken for an inert gas as hydrogen is for a non-metal
Classify_HeliumInert(atomic_number, configuration) ==
    LET config == StrLower(configuration)
    IN  IF atomic_number = 1
        THEN [dominant_energy |-> "HEAT", element_type |-> "NON_METALS"]
        ELSE IF atomic_number = 2 \/ EndsWith(config, p6)
        THEN [dominant_energy |-> "LIGHT", element_type |-> "INERT_GASES"]
        ELSE IF \E x \in {p5, p4, p3} : Contains(config, x)
        THEN [dominant_energy |-> "HEAT", element_type |-> "NON_METALS"]
        ELSE IF \E x \in {p1, p2} : Contains(config, x)
        THEN [dominant_energy |-> "RADIOWAVES", element_type |-> "SEMI_METALS"]
        ELSE IF EndsWith(config, s1)
        THEN [dominant_energy |-> "MAGNETISM", element_type |-> "ACTIVE_METALS"]
        ELSE [dominant_energy |-> "ELECTRICITY", element_type |-> "MEDIUM_METALS"]

Classify(atomic_number, configuration) ==
    LET config == StrLower(configuration)
    IN  IF atomic_number = 1
        THEN [dominant_energy |-> "HEAT", element_type |-> "NON_METALS"]
        ELSE IF EndsWith(config, p6)
        THEN [dominant_energy |-> "LIGHT", element_type |-> "INERT_GASES"]
        ELSE IF \E x \in {p5, p4, p3} : Contains(config, x)
        THEN [dominant_energy |-> "HEAT", element_type |-> "NON_METALS"]
        ELSE IF \E x \in {p1, p2} : Contains(config, x)
        THEN [dominant_energy |-> "RADIOWAVES", element_type |-> "SEMI_METALS"]
        ELSE IF EndsWith(config, s1)
        THEN [dominant_energy |-> "MAGNETISM", element_type |-> "ACTIVE_METALS"]
        ELSE [dominant_energy |-> "ELECTRICITY", element_type |-> "MEDIUM_METALS"]

DetermineElementType ==
    /\ pc = "profiled"
    /\ LET c == Classify(self.atomic_number, self.electrons.configuration)
       IN  self' = [self EXCEPT !.dominant_energy = c.dominant_energy,
                                !.element_type = c.element_type]
    /\ pc' = "typed"
    /\ UNCHANGED <<pc3, self3, heap, frame, callerVars>>

\* ------------------------------------------------------------------------
\* HybridElement._generate_energy_signature (v6)
\* ------------------------------------------------------------------------

\* variant: Light is listed before Heat
SignatureOrder_LightFirst == <<"LIGHT", "HEAT", "MAGNETISM", "ELECTRICITY", "RADIOWAVES">>

SignatureOrder == <<"HEAT", "LIGHT", "MAGNETISM", "ELECTRICITY", "RADIOWAVES">>

Signature(level1) ==
    LET signature_parts ==
            [i \in 1..Len(SignatureOrder) |->
                LET energy == SignatureOrder[i]
                    quanta == DictGet(level1.energy_distribution, energy, 0)
                IN  SubSeq(EnergyName(energy), 1, 2) \o IntToStr(quanta)]
    IN  Join(<<"-">>, signature_parts)

\* variant: the signature also carries the element's total_quanta
GenerateEnergySignature_WithTotal ==
    /\ pc = "typed"
    /\ self' = [self EXCEPT !.energy_signature =
                    Signature(self.energy_profile.level_quanta["LEVEL_1"])
                        \o <<"-">> \o IntToStr(self.energy_profile.total_quanta)]
    /\ pc' = "done"
    /\ UNCHANGED <<pc3, self3, heap, frame, callerVars>>

GenerateEnergySignature ==
    /\ pc = "typed"
    /\ self' = [self EXCEPT !.energy_signature =
                    Signature(self.energy_profile.level_quanta["LEVEL_1"])]
    /\ pc' = "done"
    /\ UNCHANGED <<pc3, self3, heap, frame, callerVars>>

\* ------------------------------------------------------------------------
\* HybridElement._determine_element_type (v3)
\* ------------------------------------------------------------------------

\* variant: the final else assigns a category that has no cluster
ClassifyV3_UnmappedDefault(atomic_number, configuration) ==
    LET config == StrLower(configuration)
        has(set) == \E x \in set : Contains(config, x)
        dominant ==
            IF atomic_number = 1 THEN "HEAT"
            ELSE IF EndsWith(config, s1) /\ ~has({<<"d">>, <<"f">>}) THEN "MAGNETISM"
            ELSE IF EndsWith(config, s2) /\ ~has({<<"p">>, <<"d">>, <<"f">>})
                 THEN "ELECTRICITY"
            ELSE IF Contains(config, p6) /\ EndsWith(config, p6) THEN "LIGHT"
            ELSE IF has({p3, p4, p5}) THEN "HEAT"
            ELSE IF has({p1, p2}) THEN "RADIOWAVES"
            ELSE IF has({<<"d">>, <<"f">>}) THEN "ELECTRICITY"
            ELSE "THERMONUCLEAR"
    IN  [dominant_energy |-> dominant,
         element_type |-> DictGet(DOMINANT_ENERGY_TO_TYPE, dominant, "NON_METALS")]

ClassifyV3(atomic_number, configuration) ==
    LET config == StrLower(configuration)
        has(set) == \E x \in set : Contains(config, x)
        dominant ==
            IF atomic_number = 1 THEN "HEAT"
            ELSE IF EndsWith(config, s1) /\ ~has({<<"d">>, <<"f">>}) THEN "MAGNETISM"
            ELSE IF EndsWith(config, s2) /\ ~has({<<"p">>, <<"d">>, <<"f">>})
                 THEN "ELECTRICITY"
            ELSE IF Contains(config, p6) /\ EndsWith(config, p6) THEN "LIGHT"
            ELSE IF has({p3, p4, p5}) THEN "HEAT"
            ELSE IF has({p1, p2}) THEN "RADIOWAVES"
            ELSE IF has({<<"d">>, <<"f">>}) THEN "ELECTRICITY"
            ELSE "HEAT"
    IN  [dominant_energy |-> dominant,
         element_type |-> DictGet(DOMINANT_ENERGY_TO_TYPE, dominant, "NON_METALS")]

\* v3 tables: LEVEL_ENERGY_DISTRIBUTION = {3: 0.55, 2: 0.33, 1: 0.12}, by key
V3_LEVEL_ENERGY_DISTRIBUTION == <<FloatLit(12, 2), FloatLit(33, 2), FloatLit(55, 2)>>

V3_FIRST_LEVEL_ENERGY_RATIO ==
    [en \in {"HEAT", "LIGHT", "MAGNETISM", "ELECTRICITY", "RADIOWAVES"} |->
        CASE en = "HEAT" -> FloatLit(40, 2)
          [] en = "LIGHT" -> FloatLit(30, 2)
          [] en = "MAGNETISM" -> FloatLit(20, 2)
          [] en = "ELECTRICITY" -> FloatLit(6, 2)
          [] en = "RADIOWAVES" -> FloatLit(4, 2)]

\* variant: the level split rounds to the nearest integer
V3LevelDistribution_Rounded(total) ==
    [l \in 1..3 |->
        FloatToInt_Round(FloatMul(IntToFloat(total), V3_LEVEL_ENERGY_DISTRIBUTION[l]))]

\* level_distribution = {l: int(total * LEVEL_ENERGY_DISTRIBUTION[l])}: no
\* reconciliation in v3
V3LevelDistribution(total) ==
    [l \in 1..3 |-> IntTimes(total, V3_LEVEL_ENERGY_DISTRIBUTION[l])]

\* 8.0 - (atomic_number - 20) * 0.02 if atomic_number > 20 else 8.0
V3BindingEnergyMev(atomic_number) ==
    IF atomic_number > 20
    THEN FloatSub(FloatLit(80, 1),
                  FloatMul(IntToFloat(atomic_number - 20), FloatLit(2, 2)))
    ELSE FloatLit(80, 1)

\* 1 + neutrons / max(1, protons)
V3NeutronFactor(nucleus) ==
    FloatAdd(IntToFloat(1),
             FloatDiv(IntToFloat(nucleus.neutrons),
                      IntToFloat(IF nucleus.protons > 1 THEN nucleus.protons ELSE 1)))

\* energy_quanta: the five first-level categories from level_distribution[1],
\* the other four from the nucleus and the mass
V3EnergyQuanta(element, first_level) ==
    [en \in EnergyType |->
        CASE en \in DOMAIN V3_FIRST_LEVEL_ENERGY_RATIO ->
                 IntTimes(first_level, V3_FIRST_LEVEL_ENERGY_RATIO[en])
          [] en = "MICRO_GRAVITY" ->
                 FloatToInt(FloatMul(FloatMul(V3BindingEnergyMev(element.atomic_number),
                                              IntToFloat(1000)),
                                     element.atomic_mass))
          [] en = "MACRO_GRAVITY" ->
                 FloatToInt(FloatMul(FloatMul(element.atomic_mass, IntToFloat(500)),
                                     V3NeutronFactor(element.nucleus)))
          [] en = "THERMONUCLEAR" ->
                 FloatToInt(FloatMul(FloatMul(V3BindingEnergyMev(element.atomic_number),
                                              IntToFloat(2000)),
                                     element.nucleus.stability))
          [] en = "RADIOACTIVITY" ->
                 FloatToInt(FloatMul(FloatMul(FloatSub(IntToFloat(1),
                                                       element.nucleus.stability),
                                              IntToFloat(10000)),
                                     element.atomic_mass))]

\* the QuantumEnergyProfile v3's _calculate_energy_profile leaves
V3Profile(element, total) ==
    [total_quanta |-> total,
     level_distribution |-> V3LevelDistribution(total),
     energy_quanta |-> V3EnergyQuanta(element, V3LevelDistribution(total)[1]),
     resonance_frequency |-> FloatMul(element.electrons.ionization_energy, EvToHz)]

\* HybridElement._calculate_energy_profile (v3)
V3CalculateEnergyProfile ==
    /\ pc3 = "new"
    /\ self3' = [self3 EXCEPT !.energy_profile = V3Profile(self3, TotalOf(self3))]
    /\ pc3' = "profiled"
    /\ UNCHANGED <<pc, self, heap, frame, callerVars>>

V3DetermineElementType ==
    /\ pc3 = "profiled"
    /\ LET c == ClassifyV3(self3.atomic_number, self3.electrons.configuration)
       IN  self3' = [self3 EXCEPT !.dominant_energy = c.dominant_energy,
                                  !.element_type = c.element_type]
    /\ pc3' = "done"
    /\ UNCHANGED <<pc, self, heap, frame, callerVars>>

\* ------------------------------------------------------------------------
\* Construction and specifications
\* ------------------------------------------------------------------------

\* a HybridElement as the dataclass holds it when __post_init__ starts
NewElement(z, mass, config, stability, ionization) ==
    [atomic_number |-> z,
     atomic_mass |-> mass,
     nucleus |-> [stability |-> stability],
     electrons |-> [configuration |-> config, ionization_energy |-> ionization],
     energy_profile |-> [total_quanta |-> 0,
                         level_quanta |-> <<>>,
                         resonance_frequency |-> FloatZero,
                         vibrational_coefficient |-> FloatZero],
     dominant_energy |-> "HEAT",
     element_type |-> "NON_METALS",
     energy_signature |-> <<>>]

NewElementV3(z, mass, config, stability, ionization) ==
    [atomic_number |-> z,
     atomic_mass |-> mass,
     nucleus |-> [stability |-> stability],
     electrons |-> [configuration |-> config, ionization_energy |-> ionization],
     dominant_energy |-> "HEAT",
     element_type |-> "NON_METALS"]

\* QuantumEnergyProfile() with its field defaults
DefaultProfile ==
    [total_quanta |-> 0,
     level_quanta |-> <<>>,
     resonance_frequency |-> FloatZero,
     vibrational_coefficient |-> FloatZero]

\* HybridPeriodicSystem.__init__
EmptySystem == [elements |-> <<>>, clusters |-> [et \in ElementType |-> <<>>]]

\* no build_system loop and no create_element call in progress
NoCall ==
    [build |-> [active |-> FALSE, z |-> 0, max_elements |-> 0, lookups |-> 0],
     create |-> [active |-> FALSE, atomic_number |-> 0],
     request |-> [op |-> "none", arg |-> 0],
     profile |-> 0]

NoQuery == [asked |-> FALSE, energy_type |-> "HEAT", total |-> 0]

NoDriver == [calls |-> 0, inputs |-> {}]

\* no report method has been called
NoReport == [op |-> "none", raised |-> FALSE, levels |-> <<>>, overall |-> <<>>]

\* one HybridElement(...) call on its own, for the v6 and the v3 class
Construct(z, mass, config, stability, ionization) ==
    /\ pc = "new"
    /\ self = NewElement(z, mass, config, stability, ionization)
    /\ pc3 = "profiled"
    /\ self3 = NewElementV3(z, mass, config, stability, ionization)
    /\ heap = <<DefaultProfile>>
    /\ frame = [NoCall EXCEPT !.profile = 1]
    /\ results = <<>>
    /\ elements_data = ELEMENTS_DATA
    /\ system = EmptySystem
    /\ query = NoQuery
    /\ driver = NoDriver
    /\ report = NoReport

Next ==
    \/ CalculateEnergyProfile
    \/ DetermineElementType
    \/ GenerateEnergySignature
    \/ V3DetermineElementType

\* ELEMENTS_DATA rows used as fixed inputs
HeliumMass == FloatLit(40026, 4)
HeliumConfig == <<"1", "s", "sup2">>
HeliumIonization == FloatLit(24587, 3)
HydrogenMass == FloatLit(1008, 3)
HydrogenIonization == FloatLit(13598, 3)
Stable == FloatLit(999, 3)

\* masses of the table that exercise the large totals
TableMasses == {FloatLit(1008, 3), FloatLit(40026, 4), FloatLit(54938, 3),
                FloatLit(15725, 2), FloatLit(2940, 1), FloatLit(23803, 2)}

MassInputs == {FloatLit(5 * n, 4) : n \in 1..MaxMassUnits} \cup TableMasses

\* allocation: every mass, one classification input
InitAlloc ==
    \E mass \in MassInputs : Construct(2, mass, HeliumConfig, Stable, HeliumIonization)

SpecAlloc == InitAlloc /\ [][Next]_vars


\* classification: every configuration, one mass
ConfigChars == {"s", "p", "P", "d", "f", "sup1", "sup2", "sup6"}

ConfigMarkers == {p6, p3, p1, s1, <<"d", "sup1">>}

RECURSIVE Words(_, _)
Words(units, n) ==
    IF n = 0 THEN {<<>>}
    ELSE LET shorter == Words(units, n - 1)
         IN  shorter \cup {w \o u : w \in shorter, u \in units}

ConfigInputs ==
    Words({<<ch>> : ch \in ConfigChars}, MaxConfigLen) \cup Words(ConfigMarkers, MaxMarkers)

ZInputs == {1, 2}

InitClassify ==
    \E z \in ZInputs, config \in ConfigInputs :
        Construct(z, HydrogenMass, config, Stable, HydrogenIonization)

SpecClassify == InitClassify /\ [][Next]_vars


\* the v3 and the v6 constructors on the same table record
HybridElementV3(z, mass, config, isotope, stability, ionization) ==
    [atomic_number |-> z,
     atomic_mass |-> mass,
     nucleus |-> [protons |-> isotope[1], neutrons |-> isotope[2],
                  stability |-> stability],
     electrons |-> [configuration |-> config, ionization_energy |-> ionization],
     energy_profile |-> [total_quanta |-> 0,
                         level_distribution |-> <<>>,
                         energy_quanta |-> <<>>,
                         resonance_frequency |-> FloatZero],
     dominant_energy |-> "HEAT",
     element_type |-> "NON_METALS"]

ConstructBoth(z, mass, config, isotope, stability, ionization) ==
    /\ pc = "new"
    /\ self = NewElement(z, mass, config, stability, ionization)
    /\ pc3 = "new"
    /\ self3 = HybridElementV3(z, mass, config, isotope, stability, ionization)
    /\ heap = <<DefaultProfile>>
    /\ frame = [NoCall EXCEPT !.profile = 1]
    /\ results = <<>>
    /\ elements_data = ELEMENTS_DATA
    /\ system = EmptySystem
    /\ query = NoQuery
    /\ driver = NoDriver
    /\ report = NoReport

\* (z, isotope) of the rows H, He, Mn, Tc, U, Og, which the v3 and the v6
\* table hold with the same values
V3Rows ==
    {<<1, <<1, 0>>>>, <<2, <<2, 2>>>>, <<25, <<25, 30>>>>, <<43, <<43, 55>>>>,
     <<92, <<92, 146>>>>, <<118, <<118, 176>>>>}

\* masses 0.0005 .. MaxV3Units * 0.0005 (totals 0 .. 120)
V3Masses == {FloatLit(5 * n, 4) : n \in 1..MaxV3Units}

InitV3 ==
    \/ \E mass \in V3Masses :
           ConstructBoth(2, mass, HeliumConfig, <<2, 2>>, Stable, HeliumIonization)
    \/ \E row \in V3Rows :
           ConstructBoth(row[1], ELEMENTS_DATA[row[1]].atomic_mass,
                         ELEMENTS_DATA[row[1]].configuration, row[2],
                         ELEMENTS_DATA[row[1]].stability,
                         ELEMENTS_DATA[row[1]].ionization_energy)

NextV3 ==
    \/ CalculateEnergyProfile
    \/ DetermineElementType
    \/ GenerateEnergySignature
    \/ V3CalculateEnergyProfile
    \/ V3DetermineElementType

SpecV3 == InitV3 /\ [][NextV3]_vars


\* ------------------------------------------------------------------------
\* HybridElement.get_total_energy_quanta
\* ------------------------------------------------------------------------

RECURSIVE TotalOver(_, _, _)
TotalOver(level_quanta, levels, energy_type) ==
    IF levels = {} THEN 0
    ELSE LET level == CHOOSE l \in levels : TRUE
         IN  DictGet(level_quanta[level].energy_distribution, energy_type, 0)
               + TotalOver(level_quanta, levels \ {level}, energy_type)

\* variant: only the Outer level is consulted
GetTotalEnergyQuanta_OuterOnly(profile, energy_type) ==
    TotalOver(profile.level_quanta, DOMAIN profile.level_quanta \cap {"LEVEL_1"},
              energy_type)

\* variant: the search stops at the first level that has the category
GetTotalEnergyQuanta_FirstHit(profile, energy_type) ==
    IF energy_type \in DOMAIN profile.level_quanta["LEVEL_1"].energy_distribution
    THEN profile.level_quanta["LEVEL_1"].energy_distribution[energy_type]
    ELSE IF energy_type \in DOMAIN profile.level_quanta["LEVEL_2"].energy_distribution
    THEN profile.level_quanta["LEVEL_2"].energy_distribution[energy_type]
    ELSE DictGet(profile.level_quanta["LEVEL_3"].energy_distribution, energy_type, 0)

\* for level_quanta in self.energy_profile.level_quanta.values():
\*     total += level_quanta.energy_distribution.get(energy_type, 0)
GetTotalEnergyQuanta(profile, energy_type) ==
    TotalOver(profile.level_quanta, DOMAIN profile.level_quanta, energy_type)

\* element.get_total_energy_quanta(energy_type) on the element just built
CallGetTotalEnergyQuanta ==
    /\ pc = "done"
    /\ \E energy_type \in EnergyType :
          query' = [asked |-> TRUE,
                    energy_type |-> energy_type,
                    total |-> GetTotalEnergyQuanta(heap[frame.profile], energy_type)]
    /\ UNCHANGED <<pc, self, pc3, self3, heap, frame, results, elements_data, report,
                   system, driver>>

\* ------------------------------------------------------------------------
\* HybridElementFactory.create_element, HybridPeriodicSystem.build_system
\* ------------------------------------------------------------------------

\* the value None and an element object as a caller holds it
None == [tag |-> "None"]
Element(obj) == [tag |-> "HybridElement", obj |-> obj]

\* the element object: its energy_profile attribute is a reference
Held(element, ref) == [element EXCEPT !.energy_profile = ref]

\* variant: one default QuantumEnergyProfile instance shared by all elements
FreshProfile_SharedDefault(h) == 1

\* field(default_factory=QuantumEnergyProfile): a new object per element
FreshProfile(h) == Len(h) + 1

\* HybridElement(...): the dataclass __init__ up to the call of __post_init__
Instantiate(item, called) ==
    \E ref \in {FreshProfile(heap)} :
        /\ heap' = IF ref > Len(heap) THEN Append(heap, DefaultProfile) ELSE heap
        /\ self' = [NewElement(item.atomic_number, item.atomic_mass, item.configuration,
                               item.stability, item.ionization_energy)
                        EXCEPT !.energy_profile = heap'[ref]]
        /\ frame' = [called EXCEPT !.profile = ref]
        /\ pc' = "new"

\* the rows (item for item in ELEMENTS_DATA if item[0] == atomic_number)
Matching(data, atomic_number) ==
    {i \in 1..Len(data) : data[i].atomic_number = atomic_number}

\* variant: the row of the previous atomic number is taken when there is one
FirstItem_Previous(data, atomic_number) ==
    IF Matching(data, atomic_number - 1) # {}
    THEN data[CHOOSE i \in Matching(data, atomic_number - 1) : TRUE]
    ELSE data[CHOOSE i \in Matching(data, atomic_number) :
                \A j \in Matching(data, atomic_number) : i <= j]

\* variant: a served row is consumed: a lookup of an atomic number that was
\* already served yields the row after it (the first row after the last)
FirstItem_Consumed(data, atomic_number) ==
    IF \E k \in 1..Len(results) :
          /\ results[k].value.tag = "HybridElement"
          /\ results[k].value.obj.atomic_number = atomic_number
    THEN data[((CHOOSE i \in Matching(data, atomic_number) :
                  \A j \in Matching(data, atomic_number) : i <= j) % Len(data)) + 1]
    ELSE data[CHOOSE i \in Matching(data, atomic_number) :
                \A j \in Matching(data, atomic_number) : i <= j]

\* next(..., None) when a row matches: the first such row
FirstItem(data, atomic_number) ==
    data[CHOOSE i \in Matching(data, atomic_number) :
            \A j \in Matching(data, atomic_number) : i <= j]

\* variant: a lookup miss ends the build_system loop at once
CreateElement_MissAborts(atomic_number, called, missed) ==
    IF Matching(elements_data, atomic_number) = {}
    THEN /\ frame' = [missed EXCEPT !.build.z = missed.build.max_elements + 1]
         /\ UNCHANGED <<pc, self, heap>>
    ELSE Instantiate(FirstItem(elements_data, atomic_number),
                     [called EXCEPT !.create =
                         [active |-> TRUE, atomic_number |-> atomic_number]])

\* create_element(atomic_number) entered with the frame `called`: a lookup
\* miss returns None to `missed`, a hit starts the constructor
CreateElement(atomic_number, called, missed) ==
    IF Matching(elements_data, atomic_number) = {}
    THEN /\ frame' = missed
         /\ UNCHANGED <<pc, self, heap>>
    ELSE Instantiate(FirstItem(elements_data, atomic_number),
                     [called EXCEPT !.create =
                         [active |-> TRUE, atomic_number |-> atomic_number]])

\* a call the caller may make: op(arg)
Request(op, arg) == [op |-> op, arg |-> arg]

\* what the caller keeps of a finished call: the call and the value it returned
Returned(call, value) == [call |-> call, value |-> value]

\* records for direct HybridElement(...) calls: hydrogen's row; a record of
\* the same mass with every other column different; helium's row; a record
\* whose Outer level equals hydrogen's while its total does not
RecordInputs ==
    <<[atomic_number |-> 1, atomic_mass |-> HydrogenMass,
       configuration |-> <<"1", "s", "sup1">>,
       stability |-> Stable, ionization_energy |-> HydrogenIonization],
      [atomic_number |-> 2, atomic_mass |-> HydrogenMass,
       configuration |-> HeliumConfig,
       stability |-> FloatLit(10, 3), ionization_energy |-> HeliumIonization],
      [atomic_number |-> 2, atomic_mass |-> HeliumMass,
       configuration |-> HeliumConfig,
       stability |-> Stable, ionization_energy |-> HeliumIonization],
      [atomic_number |-> 10, atomic_mass |-> FloatLit(10085, 4),
       configuration |-> <<"2", "p", "sup6">>,
       stability |-> FloatLit(100, 3), ionization_energy |-> FloatLit(21565, 3)]>>

\* the caller calls create_element(arg)
CallCreateElement ==
    /\ pc = "idle"
    /\ ~frame.build.active
    /\ driver.calls > 0
    /\ \E request \in driver.inputs :
          /\ request.op = "create_element"
          /\ CreateElement(request.arg, [frame EXCEPT !.request = request], frame)
          /\ results' = IF Matching(elements_data, request.arg) = {}
                        THEN Append(results, Returned(request, None))
                        ELSE results
    /\ driver' = [driver EXCEPT !.calls = @ - 1]
    /\ UNCHANGED <<pc3, self3, elements_data, report, system, query>>

\* the caller calls HybridElement(...) itself
CallHybridElement ==
    /\ pc = "idle"
    /\ ~frame.build.active
    /\ driver.calls > 0
    /\ \E request \in driver.inputs :
          /\ request.op = "HybridElement"
          /\ Instantiate(RecordInputs[request.arg], [frame EXCEPT !.request = request])
    /\ driver' = [driver EXCEPT !.calls = @ - 1]
    /\ UNCHANGED <<pc3, self3, results, elements_data, report, system, query>>

\* create_element or HybridElement(...) returns the finished element
ReturnElement ==
    /\ pc = "done"
    /\ ~frame.build.active
    /\ results' = Append(results, Returned(frame.request,
                                            Element(Held(self, frame.profile))))
    /\ frame' = [frame EXCEPT !.create.active = FALSE]
    /\ pc' = "idle"
    /\ query' = NoQuery
    /\ UNCHANGED <<self, pc3, self3, heap, elements_data, report, system, driver>>

\* variant: build_system starts from an empty system each time
CallBuildSystem_Reset ==
    /\ pc = "idle"
    /\ ~frame.build.active
    /\ driver.calls > 0
    /\ \E request \in driver.inputs :
          /\ request.op = "build_system"
          /\ frame' = [frame EXCEPT
                           !.request = request,
                           !.build = [active |-> TRUE, z |-> 1,
                                      max_elements |-> request.arg,
                                      lookups |-> 0]]
    /\ driver' = [driver EXCEPT !.calls = @ - 1]
    /\ system' = EmptySystem
    /\ UNCHANGED <<pc, self, pc3, self3, heap, results, elements_data, report, query>>

\* the caller calls system.build_system(arg)
CallBuildSystem ==
    /\ pc = "idle"
    /\ ~frame.build.active
    /\ driver.calls > 0
    /\ \E request \in driver.inputs :
          /\ request.op = "build_system"
          /\ frame' = [frame EXCEPT
                           !.request = request,
                           !.build = [active |-> TRUE, z |-> 1,
                                      max_elements |-> request.arg,
                                      lookups |-> 0]]
    /\ driver' = [driver EXCEPT !.calls = @ - 1]
    /\ UNCHANGED <<pc, self, pc3, self3, heap, results, elements_data, report, system, query>>

\* for z in range(1, max_elements + 1): element = create_element(z);
\* a None element is skipped; after the last z build_system returns None
BuildSystemNext ==
    /\ pc = "idle"
    /\ frame.build.active
    /\ IF frame.build.z > frame.build.max_elements
       THEN /\ frame' = [frame EXCEPT !.build.active = FALSE]
            /\ results' = Append(results, Returned(frame.request, None))
            /\ UNCHANGED <<pc, self, heap>>
       ELSE /\ CreateElement(frame.build.z,
                             [frame EXCEPT !.build.lookups = @ + 1],
                             [frame EXCEPT !.build.lookups = @ + 1,
                                           !.build.z = @ + 1])
            /\ UNCHANGED results
    /\ UNCHANGED <<pc3, self3, elements_data, report, system, query, driver>>

\* variant: the element is filed under the dataclass default element_type
Appended_DefaultCluster(sys, element) ==
    [sys EXCEPT !.elements = Append(@, element),
                !.clusters["NON_METALS"] = Append(@, element)]

\* self.elements.append(element);
\* self.clusters[element.element_type].append(element)
Appended(sys, element) ==
    [sys EXCEPT !.elements = Append(@, element),
                !.clusters[element.element_type] = Append(@, element)]

\* if element: the element create_element returned is appended
BuildSystemAppend ==
    /\ pc = "done"
    /\ frame.build.active
    /\ system' = Appended(system, Held(self, frame.profile))
    /\ frame' = [frame EXCEPT !.create.active = FALSE, !.build.z = @ + 1]
    /\ pc' = "idle"
    /\ query' = NoQuery
    /\ UNCHANGED <<self, pc3, self3, heap, results, elements_data, report, driver>>

NextSystem ==
    \/ CallCreateElement
    \/ CallHybridElement
    \/ CallBuildSystem
    \/ CalculateEnergyProfile
    \/ DetermineElementType
    \/ GenerateEnergySignature
    \/ CallGetTotalEnergyQuanta
    \/ ReturnElement
    \/ BuildSystemNext
    \/ BuildSystemAppend

\* one lookup of every atomic number from -1 to MaxAtomicNumber
SweepInputs == {Request("create_element", z) : z \in -1..MaxAtomicNumber}

\* one build_system call that runs past the end of the table
FullBuildInputs == {Request("build_system", MaxAtomicNumber)}

\* several calls in a row over a few arguments
SequenceInputs ==
    {Request("create_element", z) : z \in {1, 117, 118, 119}}
        \cup {Request("build_system", n) : n \in 1..MaxElements}
        \cup {Request("HybridElement", i) : i \in 1..Len(RecordInputs)}

\* the module is loaded, a HybridPeriodicSystem made, nothing called yet
InitSystem ==
    /\ pc = "idle"
    /\ self = NewElement(0, FloatZero, <<>>, FloatZero, FloatZero)
    /\ pc3 = "idle"
    /\ self3 = NewElementV3(0, FloatZero, <<>>, FloatZero, FloatZero)
    /\ heap = <<>>
    /\ frame = NoCall
    /\ results = <<>>
    /\ elements_data = ELEMENTS_DATA
    /\ system = EmptySystem
    /\ query = NoQuery
    /\ driver \in {[calls |-> 1, inputs |-> SweepInputs],
                    [calls |-> 1, inputs |-> FullBuildInputs],
                    [calls |-> MaxCalls, inputs |-> SequenceInputs]}
    /\ report = NoReport

SpecSystem == InitSystem /\ [][NextSystem]_vars


\* ------------------------------------------------------------------------
\* create_element when the constructor raises
\* ------------------------------------------------------------------------

\* variant: the element is handed on as far as it was built
CatchException_ReturnsPartial ==
    /\ pc = "raised"
    /\ frame.create.active
    /\ pc' = "idle"
    /\ IF frame.build.active
       THEN /\ frame' = [frame EXCEPT !.create.active = FALSE, !.build.z = @ + 1]
            /\ system' = Appended(system, Held(self, frame.profile))
            /\ UNCHANGED results
       ELSE /\ frame' = [frame EXCEPT !.create.active = FALSE]
            /\ results' = Append(results, Returned(frame.request,
                                                    Element(Held(self, frame.profile))))
            /\ UNCHANGED system
    /\ UNCHANGED <<self, pc3, self3, heap, elements_data, report, query, driver>>

\* except Exception as e: print(...); return None. Inside build_system the
\* None is skipped by `if element:` and the loop goes on
CatchException ==
    /\ pc = "raised"
    /\ frame.create.active
    /\ pc' = "idle"
    /\ IF frame.build.active
       THEN /\ frame' = [frame EXCEPT !.create.active = FALSE, !.build.z = @ + 1]
            /\ UNCHANGED results
       ELSE /\ frame' = [frame EXCEPT !.create.active = FALSE]
            /\ results' = Append(results, Returned(frame.request, None))
    /\ UNCHANGED <<self, pc3, self3, heap, elements_data, report, system, query, driver>>

NextFault ==
    \/ CallCreateElement
    \/ CallBuildSystem
    \/ CalculateEnergyProfile
    \/ DetermineElementType
    \/ GenerateEnergySignature
    \/ ReturnElement
    \/ BuildSystemNext
    \/ BuildSystemAppend
    \/ CatchException

\* ELEMENTS_DATA is a module-level list: a table whose second record has a
\* mass too small for one quantum (total_quanta = 0), between two table rows
FaultTable ==
    <<ELEMENTS_DATA[1],
      [ELEMENTS_DATA[2] EXCEPT !.atomic_mass = FloatLit(5, 4)],
      ELEMENTS_DATA[3]>>

FaultInputs ==
    {Request("create_element", z) : z \in 1..(Len(FaultTable) + 1)}
        \cup {Request("build_system", n) : n \in 1..(MaxElements + 1)}

InitFault ==
    /\ pc = "idle"
    /\ self = NewElement(0, FloatZero, <<>>, FloatZero, FloatZero)
    /\ pc3 = "idle"
    /\ self3 = NewElementV3(0, FloatZero, <<>>, FloatZero, FloatZero)
    /\ heap = <<>>
    /\ frame = NoCall
    /\ results = <<>>
    /\ elements_data = FaultTable
    /\ system = EmptySystem
    /\ query = NoQuery
    /\ driver = [calls |-> MaxCalls, inputs |-> FaultInputs]
    /\ report = NoReport

SpecFault == InitFault /\ [][NextFault]_vars


\* ------------------------------------------------------------------------
\* HybridElement.print_detailed_energy_report,
\* generate_energy_profile_visualization, generate_radial_chart
\* ------------------------------------------------------------------------

\* the members of EnergyType in definition order
EnergyTypes ==
    <<"HEAT", "LIGHT", "MAGNETISM", "ELECTRICITY", "RADIOWAVES", "MICRO_GRAVITY",
      "MACRO_GRAVITY", "THERMONUCLEAR", "RADIOACTIVITY">>

\* the keys of level_quanta in insertion order
LevelOrder == <<"LEVEL_1", "LEVEL_2", "LEVEL_3">>

\* the keys of a level's energy_distribution in insertion order
Categories(l) ==
    CASE l = "LEVEL_1" -> <<"HEAT", "LIGHT", "MAGNETISM", "ELECTRICITY", "RADIOWAVES">>
      [] l = "LEVEL_2" -> <<"THERMONUCLEAR", "RADIOACTIVITY", "MICRO_GRAVITY">>
      [] l = "LEVEL_3" -> <<"MACRO_GRAVITY", "MICRO_GRAVITY", "THERMONUCLEAR">>

\* a number a report computes: its value, whether computing it raised, and
\* the denominators of the divisions performed for it
Number(value) == [raised |-> FALSE, value |-> value, by |-> {}]

\* a / b on two ints: true division, ZeroDivisionError when b = 0
TrueDiv(a, b) ==
    [raised |-> b = 0,
     value |-> IF b = 0 THEN FloatZero ELSE FloatDiv(IntToFloat(a), IntToFloat(b)),
     by |-> {b}]

\* x * n for a computed x and an int n
TimesInt(x, n) ==
    [x EXCEPT !.value = IF x.raised THEN FloatZero ELSE FloatMul(x.value, IntToFloat(n))]

\* variant: the percentage is computed without looking at the denominator
Percentage_Unguarded(quanta, whole) == TimesInt(TrueDiv(quanta, whole), 100)

\* (quanta / whole * 100) if whole > 0 else 0
Percentage(quanta, whole) ==
    IF whole > 0 THEN TimesInt(TrueDiv(quanta, whole), 100) ELSE Number(FloatZero)

\* max(...) of a non-empty list of ints
MaxOf(list) == CHOOSE m \in {list[i] : i \in 1..Len(list)} :
                  \A i \in 1..Len(list) : list[i] <= m

\* sorted(rows, key=quanta, reverse=True): descending, equal keys keep their order
RECURSIVE SortLoop(_, _, _)
SortLoop(rows, i, acc) ==
    IF i > Len(rows) THEN acc
    ELSE SortLoop(rows, i + 1,
             SubSeq(acc, 1, Cardinality({j \in 1..Len(acc) :
                                            acc[j].quanta >= rows[i].quanta}))
               \o <<rows[i]>>
               \o SubSeq(acc, Cardinality({j \in 1..Len(acc) :
                                              acc[j].quanta >= rows[i].quanta}) + 1,
                         Len(acc)))

SortedDescending(rows) == SortLoop(rows, 1, <<>>)

\* the (energy_type, quanta) pairs of a level's energy_distribution
LevelPairs(level_data) ==
    [i \in 1..Len(Categories(level_data.level)) |->
        [energy_type |-> Categories(level_data.level)[i],
         quanta |-> level_data.energy_distribution[Categories(level_data.level)[i]]]]

\* the (energy_type, get_total_energy_quanta(energy_type)) pairs
TotalPairs(profile) ==
    [i \in 1..Len(EnergyTypes) |->
        [energy_type |-> EnergyTypes[i],
         quanta |-> GetTotalEnergyQuanta(profile, EnergyTypes[i])]]

\* a printed line: the category, its quanta and the percentage of `whole`
PercentRow(pair, whole) ==
    [energy_type |-> pair.energy_type, quanta |-> pair.quanta,
     percentage |-> Percentage(pair.quanta, whole)]

PercentRows(pairs, whole) == [i \in 1..Len(pairs) |-> PercentRow(pairs[i], whole)]

\* int(x) of a computed float
Truncated(x) == IF x.raised THEN 0 ELSE FloatToInt(x.value)

\* some number of the rows raised
AnyRaised(rows) ==
    \E i \in 1..Len(rows) :
        \/ rows[i].percentage.raised
        \/ "scaled" \in DOMAIN rows[i] /\ rows[i].scaled.raised

\* print_detailed_energy_report: the level blocks, then the overall block
DetailedLevels(profile) ==
    [n \in 1..Len(LevelOrder) |->
        [level |-> LevelOrder[n],
         total_quanta |-> profile.level_quanta[LevelOrder[n]].total_quanta,
         rows |-> PercentRows(LevelPairs(profile.level_quanta[LevelOrder[n]]),
                              profile.level_quanta[LevelOrder[n]].total_quanta)]]

DetailedOverall(profile) == PercentRows(TotalPairs(profile), profile.total_quanta)

Finished(op, levels, overall) ==
    [op |-> op,
     raised |-> \/ \E n \in 1..Len(levels) : AnyRaised(levels[n].rows)
                \/ AnyRaised(overall),
     levels |-> levels,
     overall |-> overall]

PrintDetailedEnergyReport ==
    /\ pc = "done"
    /\ report' = Finished("print_detailed_energy_report",
                           DetailedLevels(self.energy_profile),
                           DetailedOverall(self.energy_profile))
    /\ UNCHANGED <<pc, self, pc3, self3, heap, frame, results, elements_data,
                   system, query, driver>>

\* scale = 50 / max_quanta if max_quanta > 0 else 1
BarScale(max_quanta) ==
    IF max_quanta > 0 THEN TrueDiv(50, max_quanta) ELSE Number(IntToFloat(1))

\* a bar line of a level: bar_length = int(quanta * scale), and the percentage
BarRow(pair, scale, whole) ==
    [energy_type |-> pair.energy_type, quanta |-> pair.quanta,
     scaled |-> scale,
     bar_length |-> Truncated(TimesInt(scale, pair.quanta)),
     percentage |-> Percentage(pair.quanta, whole)]

BarRows(pairs, scale, whole) ==
    [i \in 1..Len(pairs) |-> BarRow(pairs[i], scale, whole)]

\* max(level_data.energy_distribution.values()) if the dict is not empty else 1
MaxQuanta(pairs) ==
    IF Len(pairs) = 0 THEN 1 ELSE MaxOf([i \in 1..Len(pairs) |-> pairs[i].quanta])

VisualizationLevels(profile) ==
    [n \in 1..Len(LevelOrder) |->
        [level |-> LevelOrder[n],
         total_quanta |-> profile.level_quanta[LevelOrder[n]].total_quanta,
         rows |-> BarRows(
                      SortedDescending(LevelPairs(profile.level_quanta[LevelOrder[n]])),
                      BarScale(MaxQuanta(LevelPairs(profile.level_quanta[LevelOrder[n]]))),
                      profile.level_quanta[LevelOrder[n]].total_quanta)]]

\* x / 2 for a computed x
Halved(x) ==
    [x EXCEPT !.value = IF x.raised THEN FloatZero ELSE FloatDiv(x.value, IntToFloat(2)),
              !.by = @ \cup {2}]

\* an overall line: bar_length = int(percentage / 2)
ShareRow(pair, whole) ==
    [energy_type |-> pair.energy_type, quanta |-> pair.quanta,
     percentage |-> Percentage(pair.quanta, whole),
     bar_length |-> Truncated(Halved(Percentage(pair.quanta, whole)))]

VisualizationOverall(profile) ==
    [i \in 1..Len(EnergyTypes) |->
        ShareRow(SortedDescending(TotalPairs(profile))[i], profile.total_quanta)]

GenerateEnergyProfileVisualization ==
    /\ pc = "done"
    /\ report' = Finished("generate_energy_profile_visualization",
                           VisualizationLevels(self.energy_profile),
                           VisualizationOverall(self.energy_profile))
    /\ UNCHANGED <<pc, self, pc3, self3, heap, frame, results, elements_data,
                   system, query, driver>>

\* energy_data: the pairs with quanta > 0, in EnergyType order
RECURSIVE PositiveLoop(_, _, _)
PositiveLoop(pairs, i, acc) ==
    IF i > Len(pairs) THEN acc
    ELSE PositiveLoop(pairs, i + 1,
                      IF pairs[i].quanta > 0 THEN Append(acc, pairs[i]) ELSE acc)

PositivePairs(profile) == PositiveLoop(TotalPairs(profile), 1, <<>>)

\* a line of the radial chart: radius = int((quanta / max_quanta) * 10)
RadialRow(pair, max_quanta, whole) ==
    [energy_type |-> pair.energy_type, quanta |-> pair.quanta,
     scaled |-> TrueDiv(pair.quanta, max_quanta),
     radius |-> Truncated(TimesInt(TrueDiv(pair.quanta, max_quanta), 10)),
     percentage |-> Percentage(pair.quanta, whole)]

RadialRows(pairs, max_quanta, whole) ==
    [i \in 1..Len(pairs) |-> RadialRow(pairs[i], max_quanta, whole)]

RadialChart(profile) ==
    RadialRows(SortedDescending(PositivePairs(profile)),
               MaxQuanta(PositivePairs(profile)),
               profile.total_quanta)

GenerateRadialChart ==
    /\ pc = "done"
    /\ report' = Finished("generate_radial_chart", <<>>,
                           RadialChart(self.energy_profile))
    /\ UNCHANGED <<pc, self, pc3, self3, heap, frame, results, elements_data,
                   system, query, driver>>

NextReport ==
    \/ CalculateEnergyProfile
    \/ DetermineElementType
    \/ GenerateEnergySignature
    \/ PrintDetailedEnergyReport
    \/ GenerateEnergyProfileVisualization
    \/ GenerateRadialChart

\* masses for the reports: the small totals, where a level can be empty, the
\* table masses, and the smallest total whose categories fall short by 8
ReportMasses ==
    {FloatLit(5 * n, 4) : n \in 1..MaxReportUnits}
        \cup TableMasses \cup {FloatLit(51875, 5)}

InitReport ==
    \E mass \in ReportMasses :
        Construct(2, mass, HeliumConfig, Stable, HeliumIonization)

SpecReport == InitReport /\ [][NextReport]_vars


\* the reference range of the vibrational coefficient: stability 0, 0.5 and 1,
\* ionization energies from near 0 up to helium's, and every table record
RangeStabilities == {FloatZero, FloatLit(5, 1), IntToFloat(1)}

RangeIonizations == {FloatLit(1, 3), HydrogenIonization, HeliumIonization}

InitRange ==
    \/ \E mass \in ReportMasses, stability \in RangeStabilities,
          ionization \in RangeIonizations :
           Construct(2, mass, HeliumConfig, stability, ionization)
    \/ \E z \in 1..Len(ELEMENTS_DATA) :
           Construct(z, ELEMENTS_DATA[z].atomic_mass, ELEMENTS_DATA[z].configuration,
                     ELEMENTS_DATA[z].stability, ELEMENTS_DATA[z].ionization_energy)

SpecRange == InitRange /\ [][Next]_vars


\* ------------------------------------------------------------------------
\* Properties
\* ------------------------------------------------------------------------

\* _calculate_energy_profile has stored the level records
Profiled == pc # "new"

\* _determine_element_type has run
Typed == pc \in {"typed", "done"}

TotalQuanta == self.energy_profile.total_quanta
LevelTotal(l) == self.energy_profile.level_quanta[l].total_quanta
Quanta(l, en) == self.energy_profile.level_quanta[l].energy_distribution[en]

\* floor(t * pct / 100) in exact integer arithmetic
FloorPct(t, pct) == (t * pct) \div 100

\* total_quanta minus the three exact floors of its 55 / 33 / 12 per cent shares
Shortfall(t) == t - (FloorPct(t, 55) + FloorPct(t, 33) + FloorPct(t, 12))

\* C1: once the profile is computed, the three stored level totals add up to
\* the stored total_quanta exactly, and total_quanta is int(1600 * atomic_mass)
\* as Python evaluates it (the float product, truncated).
ThmC1_LevelSum ==
    Profiled =>
        /\ LevelTotal("LEVEL_1") + LevelTotal("LEVEL_2") + LevelTotal("LEVEL_3")
              = TotalQuanta
        /\ TotalQuanta = FloatToInt(FloatMul(IntToFloat(1600), self.atomic_mass))

WitC1_Reconciled ==
    /\ pc = "done"
    /\ TotalQuanta > 0
    /\ LevelTotal("LEVEL_3") > FloorPct(TotalQuanta, 55)

\* C2: reconciliation touches the Inner level only: Outer and Middle hold the
\* plain floors of 12% and 33% of total_quanta, Inner holds the floor of 55%
\* plus the whole shortfall, and the floors never add up to more than
\* total_quanta (so "!=" and "<" select the same branch).
ThmC2_InnerOnly ==
    Profiled =>
        /\ LevelTotal("LEVEL_1") = FloorPct(TotalQuanta, 12)
        /\ LevelTotal("LEVEL_2") = FloorPct(TotalQuanta, 33)
        /\ LevelTotal("LEVEL_3") = FloorPct(TotalQuanta, 55) + Shortfall(TotalQuanta)
        /\ LevelTotal("LEVEL_1") + LevelTotal("LEVEL_2") + FloorPct(TotalQuanta, 55)
              <= TotalQuanta

WitC2_ShortfallTwo ==
    /\ Profiled
    /\ LevelTotal("LEVEL_1") > 0
    /\ LevelTotal("LEVEL_3") = FloorPct(TotalQuanta, 55) + 2

\* C3: the amount reconciliation adds to Inner (its stored total minus the
\* floor of 55% of total_quanta) is never negative and never above 2.
ThmC3_ShortfallRange ==
    Profiled =>
        LevelTotal("LEVEL_3") - FloorPct(TotalQuanta, 55) \in 0..2

WitC3_TableShortfall ==
    /\ Profiled
    /\ TotalQuanta = 1612
    /\ LevelTotal("LEVEL_3") - FloorPct(TotalQuanta, 55) = 2

\* C4 as stated: the three floored level totals always add up to strictly
\* less than total_quanta.
CexC4_AlwaysShort ==
    Profiled =>
        LevelTotal("LEVEL_1") + LevelTotal("LEVEL_2") + FloorPct(TotalQuanta, 55)
            < TotalQuanta

\* C4 amended: the three floored level totals never exceed total_quanta, and
\* they add up to exactly total_quanta (no reconciliation) precisely when
\* total_quanta is a multiple of 100.
ThmC4_ShortfallZeroIffHundreds ==
    Profiled =>
        LET floors == LevelTotal("LEVEL_1") + LevelTotal("LEVEL_2")
                        + FloorPct(TotalQuanta, 55)
        IN  /\ floors <= TotalQuanta
            /\ (floors = TotalQuanta) <=> (TotalQuanta % 100 = 0)
            /\ (LevelTotal("LEVEL_3") = FloorPct(TotalQuanta, 55))
                  <=> (TotalQuanta % 100 = 0)

WitC4_NoShortfall ==
    /\ pc = "done"
    /\ TotalQuanta = 87900
    /\ LevelTotal("LEVEL_3") = FloorPct(TotalQuanta, 55)


\* the ratio tables of the three levels, in per cent
RatioPct(l) ==
    CASE l = "LEVEL_1" -> [en \in {"HEAT", "LIGHT", "MAGNETISM", "ELECTRICITY", "RADIOWAVES"} |->
                              CASE en = "HEAT" -> 40 [] en = "LIGHT" -> 30
                                [] en = "MAGNETISM" -> 20 [] en = "ELECTRICITY" -> 6
                                [] en = "RADIOWAVES" -> 4]
      [] l = "LEVEL_2" -> [en \in {"THERMONUCLEAR", "RADIOACTIVITY", "MICRO_GRAVITY"} |->
                              CASE en = "THERMONUCLEAR" -> 50 [] en = "RADIOACTIVITY" -> 30
                                [] en = "MICRO_GRAVITY" -> 20]
      [] l = "LEVEL_3" -> [en \in {"MACRO_GRAVITY", "MICRO_GRAVITY", "THERMONUCLEAR"} |->
                              CASE en = "MACRO_GRAVITY" -> 60 [] en = "MICRO_GRAVITY" -> 25
                                [] en = "THERMONUCLEAR" -> 15]

\* C5: every stored category quanta is the floor of its level's final stored
\* level_total times that level's own ratio; the Inner categories use the
\* reconciled Inner total.
ThmC5_CategoryFloors ==
    Profiled =>
        \A l \in EnergyLevel :
            /\ DOMAIN self.energy_profile.level_quanta[l].energy_distribution
                  = DOMAIN RatioPct(l)
            /\ \A en \in DOMAIN RatioPct(l) :
                  Quanta(l, en) = FloorPct(LevelTotal(l), RatioPct(l)[en])

\* the shortfall changes an Inner category: the reconciled total gives a
\* MacroGravity quanta the unreconciled floor would not give
WitC5_ShortfallVisible ==
    /\ Profiled
    /\ Quanta("LEVEL_3", "MACRO_GRAVITY") = FloorPct(LevelTotal("LEVEL_3"), 60)
    /\ Quanta("LEVEL_3", "MACRO_GRAVITY") # FloorPct(FloorPct(TotalQuanta, 55), 60)

RECURSIVE SumOver(_, _)
SumOver(f, S) ==
    IF S = {} THEN 0
    ELSE LET x == CHOOSE y \in S : TRUE
         IN  f[x] + SumOver(f, S \ {x})

\* level_total minus the sum of the level's category quanta
Drift(l) ==
    LET dist == self.energy_profile.level_quanta[l].energy_distribution
    IN  LevelTotal(l) - SumOver(dist, DOMAIN dist)

\* C6: per level, the category quanta never add up to more than level_total
\* and fall short of it by at most (#categories - 1).
ThmC6_DriftBounded ==
    Profiled =>
        /\ Drift("LEVEL_1") \in 0..4
        /\ Drift("LEVEL_2") \in 0..2
        /\ Drift("LEVEL_3") \in 0..2

WitC6_MaxDrift ==
    /\ Profiled
    /\ Drift("LEVEL_1") = 4
    /\ Drift("LEVEL_3") = 2

\* C7: scenario A, helium's atomic_mass 4.0026.
ThmC7_Helium ==
    (Profiled /\ self.atomic_mass = HeliumMass) =>
        /\ TotalQuanta = 6404
        /\ LevelTotal("LEVEL_1") = 768
        /\ LevelTotal("LEVEL_2") = 2113
        /\ LevelTotal("LEVEL_3") = 3523
        /\ Quanta("LEVEL_1", "HEAT") = 307

WitC7_HeliumDone ==
    /\ pc = "done"
    /\ self.atomic_mass = HeliumMass
    /\ LevelTotal("LEVEL_3") = 3523


Config == StrLower(self.electrons.configuration)

\* the predicates of rules 1..5 on the element under construction
RuleHolds ==
    <<self.atomic_number = 1,
      EndsWith(Config, p6),
      Contains(Config, p3) \/ Contains(Config, p4) \/ Contains(Config, p5),
      Contains(Config, p1) \/ Contains(Config, p2),
      EndsWith(Config, s1)>>

RuleCategory == <<"HEAT", "LIGHT", "HEAT", "RADIOWAVES", "MAGNETISM">>

\* the category of the lowest-numbered rule that holds, Electricity if none
FirstMatch ==
    LET matching == {i \in 1..5 : RuleHolds[i]}
    IN  IF matching = {} THEN "ELECTRICITY"
        ELSE RuleCategory[CHOOSE i \in matching : \A j \in matching : i <= j]

\* C8: atomic_number 1 is classified Heat / NonMetals whatever the
\* configuration string.
ThmC8_Hydrogen ==
    (Typed /\ self.atomic_number = 1) =>
        /\ self.dominant_energy = "HEAT"
        /\ self.element_type = "NON_METALS"

\* atomic_number 1 with a configuration that ends in p6
WitC8_HydrogenP6 ==
    /\ Typed
    /\ self.atomic_number = 1
    /\ RuleHolds[2]
    /\ self.dominant_energy = "HEAT"

\* C9: the classifier's result is the category of the lowest-numbered rule
\* whose predicate holds, Electricity when none holds.
ThmC9_FirstMatch ==
    Typed => self.dominant_energy = FirstMatch

\* ends with p6 while containing p3 and p1: Light wins
WitC9_Overlap ==
    /\ Typed
    /\ ~RuleHolds[1]
    /\ RuleHolds[2] /\ RuleHolds[3] /\ RuleHolds[4]
    /\ self.dominant_energy = "LIGHT"

\* C10: both classifiers only produce categories that are keys of
\* DOMINANT_ENERGY_TO_TYPE, so v3's .get never falls back to its default.
ThmC10_FiveCategories ==
    /\ Typed =>
          self.dominant_energy
              \in {"HEAT", "LIGHT", "MAGNETISM", "ELECTRICITY", "RADIOWAVES"}
    /\ pc3 = "done" =>
          /\ self3.dominant_energy \in DOMAIN DOMINANT_ENERGY_TO_TYPE
          /\ self3.element_type = DOMINANT_ENERGY_TO_TYPE[self3.dominant_energy]
    /\ DOMAIN DOMINANT_ENERGY_TO_TYPE
          = {"HEAT", "LIGHT", "MAGNETISM", "ELECTRICITY", "RADIOWAVES"}

\* both classifiers ended in their final else branch
WitC10_Defaults ==
    /\ Typed
    /\ pc3 = "done"
    /\ self.atomic_number # 1
    /\ \A i \in 1..5 : ~RuleHolds[i]
    /\ ~Contains(Config, <<"d">>)
    /\ ~EndsWith(Config, s2)
    /\ self.dominant_energy = "ELECTRICITY"
    /\ self3.dominant_energy = "HEAT"

\* C11: once classified, element_type is the cluster DOMINANT_ENERGY_TO_TYPE
\* gives for dominant_energy, although each branch assigns it directly.
ThmC11_TypeFromTable ==
    Typed =>
        /\ self.dominant_energy \in DOMAIN DOMINANT_ENERGY_TO_TYPE
        /\ self.element_type = DOMINANT_ENERGY_TO_TYPE[self.dominant_energy]

WitC11_SemiMetals ==
    /\ Typed
    /\ self.dominant_energy = "RADIOWAVES"
    /\ self.element_type = "SEMI_METALS"

\* C12: the classifier has no error outcome: from every profiled element its
\* only step ends classified, and for atomic_number # 1 with a configuration
\* matching none of rules 2..5 the result is Electricity / MediumMetals.
ThmC12_DefaultNoError ==
    /\ [](Typed /\ self.atomic_number # 1 /\ (\A i \in 2..5 : ~RuleHolds[i])
            => /\ self.dominant_energy = "ELECTRICITY"
               /\ self.element_type = "MEDIUM_METALS")
    /\ [](pc = "profiled" => ENABLED DetermineElementType)
    /\ [][(pc = "profiled" /\ pc' # pc) => pc' = "typed"]_vars

\* a filled outer s pair (as helium's) and an f-subshell text, both defaulted
WitC12_FilledPair ==
    /\ Typed
    /\ self.atomic_number # 1
    /\ EndsWith(Config, s2)
    /\ self.dominant_energy = "ELECTRICITY"
    /\ self.element_type = "MEDIUM_METALS"

\* C14 as stated: a record whose total_quanta is 0 gets a complete profile,
\* the division by total_quanta being guarded.
CexC14_ZeroTotalCompletes ==
    (Profiled /\ TotalQuanta = 0) => pc \in {"profiled", "typed", "done"}

\* the text of str split at every occurrence of the character sep
RECURSIVE SplitLoop(_, _, _, _)
SplitLoop(str, sep, parts, cur) ==
    IF str = <<>> THEN Append(parts, cur)
    ELSE IF Head(str) = sep THEN SplitLoop(Tail(str), sep, Append(parts, cur), <<>>)
    ELSE SplitLoop(Tail(str), sep, parts, Append(cur, Head(str)))

SplitOn(str, sep) == SplitLoop(str, sep, <<>>, <<>>)

Digits == <<"0", "1", "2", "3", "4", "5", "6", "7", "8", "9">>

\* the number a string of decimal digits denotes
RECURSIVE ParseInt(_)
ParseInt(digits) ==
    IF digits = <<>> THEN 0
    ELSE ParseInt(SubSeq(digits, 1, Len(digits) - 1)) * 10
           + (CHOOSE d \in 0..9 : Digits[d + 1] = digits[Len(digits)])

\* a canonical decimal numeral: digits only, no leading zero
IsNumeral(str) ==
    /\ str # <<>>
    /\ \A i \in 1..Len(str) : \E d \in 1..10 : Digits[d] = str[i]
    /\ Len(str) > 1 => str[1] # "0"

SignatureCodes ==
    <<[energy |-> "HEAT",        code |-> <<"H", "E">>],
      [energy |-> "LIGHT",       code |-> <<"L", "I">>],
      [energy |-> "MAGNETISM",   code |-> <<"M", "A">>],
      [energy |-> "ELECTRICITY", code |-> <<"E", "L">>],
      [energy |-> "RADIOWAVES",  code |-> <<"R", "A">>]>>

\* C15: the signature read back: split at '-', it has exactly five parts, in
\* the order Heat, Light, Magnetism, Electricity, Radiowaves; each part is the
\* two-letter code followed by the decimal numeral of the Outer quanta.
ThmC15_SignatureFormat ==
    pc = "done" =>
        \E parts \in {SplitOn(self.energy_signature, "-")} :
            /\ Len(parts) = 5
            /\ \A i \in 1..5 :
                  /\ Len(parts[i]) > 2
                  /\ SubSeq(parts[i], 1, 2) = SignatureCodes[i].code
                  /\ IsNumeral(SubSeq(parts[i], 3, Len(parts[i])))
                  /\ ParseInt(SubSeq(parts[i], 3, Len(parts[i])))
                        = Quanta("LEVEL_1", SignatureCodes[i].energy)

\* a signature with numerals of different widths
WitC15_MixedWidths ==
    /\ pc = "done"
    /\ Quanta("LEVEL_1", "HEAT") >= 10
    /\ Quanta("LEVEL_1", "RADIOWAVES") \in 1..9
    /\ Len(self.energy_signature) > 15


\* the k-th finished call of the caller, and the value it returned
Call(k) == results[k].call
Value(k) == results[k].value
IsElement(k) == Value(k).tag = "HybridElement"
FromFactory(k) == Call(k).op = "create_element"

\* the profile object the k-th returned element refers to
ProfileOf(k) == heap[Value(k).obj.energy_profile]

\* C13: create_element(z) returns None exactly when z is not an atomic number
\* of the table, whose atomic numbers are 1..118; for z in 1..118 it returns
\* an element whose atomic_number is z; the constructor never raises for a
\* table row, so no call ends in an exception.
ThmC13_LookupTotal ==
    /\ pc # "raised"
    /\ {elements_data[i].atomic_number : i \in 1..Len(elements_data)} = 1..118
    /\ \A k \in 1..Len(results) :
          FromFactory(k) =>
              /\ (Value(k) = None) <=> (Call(k).arg \notin 1..118)
              /\ (Value(k) = None) <=> (Matching(elements_data, Call(k).arg) = {})
              /\ IsElement(k) <=> (Call(k).arg \in 1..118)
              /\ IsElement(k) => Value(k).obj.atomic_number = Call(k).arg

WitC13_HitThenMiss ==
    /\ Len(results) >= 2
    /\ Call(1) = Request("create_element", 118)
    /\ IsElement(1)
    /\ Value(1).obj.atomic_number = 118
    /\ Call(2) = Request("create_element", 119)
    /\ Value(2) = None

\* the Outer-level category quanta of the k-th returned element
OuterQuanta(k) == ProfileOf(k).level_quanta["LEVEL_1"].energy_distribution

\* C16: the signature is a function of the Outer-level category quanta alone:
\* any two returned elements whose Outer category quanta agree carry the same
\* energy_signature, whatever their atomic number, configuration, total or
\* Middle and Inner levels (Z = 117 and Z = 118, of equal mass, are one case).
ThmC16_SignatureFromOuter ==
    \A j, k \in 1..Len(results) :
        (IsElement(j) /\ IsElement(k) /\ OuterQuanta(j) = OuterQuanta(k))
            => Value(j).obj.energy_signature = Value(k).obj.energy_signature

WitC16_SameOuterOtherTotal ==
    /\ Len(results) >= 2
    /\ IsElement(1) /\ IsElement(2)
    /\ OuterQuanta(1) = OuterQuanta(2)
    /\ ProfileOf(1).total_quanta # ProfileOf(2).total_quanta
    /\ ProfileOf(1).level_quanta["LEVEL_2"] # ProfileOf(2).level_quanta["LEVEL_2"]
    /\ Value(1).obj.atomic_number # Value(2).obj.atomic_number
    /\ Value(1).obj.energy_signature = Value(2).obj.energy_signature

\* the quanta of a category on a level of the element just built
Stored(l, en) == heap[frame.profile].level_quanta[l].energy_distribution[en]

\* what the claim says the category's total is
CategoryTotal(en) ==
    CASE en \in {"HEAT", "LIGHT", "MAGNETISM", "ELECTRICITY", "RADIOWAVES"}
             -> Stored("LEVEL_1", en)
      [] en = "RADIOACTIVITY" -> Stored("LEVEL_2", en)
      [] en = "MACRO_GRAVITY" -> Stored("LEVEL_3", en)
      [] en \in {"MICRO_GRAVITY", "THERMONUCLEAR"}
             -> Stored("LEVEL_2", en) + Stored("LEVEL_3", en)

\* C17: get_total_energy_quanta(category) returns the sum of the category's
\* quanta over the three levels: the Outer quanta for Heat, Light, Magnetism,
\* Electricity and Radiowaves, the Middle quanta for Radioactivity, the Inner
\* quanta for MacroGravity, Middle plus Inner for MicroGravity and
\* Thermonuclear; and the call changes neither the element nor its profile.
ThmC17_CategoryTotals ==
    /\ [](query.asked => query.total = CategoryTotal(query.energy_type))
    /\ [][(query'.asked /\ query' # query)
            => UNCHANGED <<pc, self, heap, frame, results, elements_data, system>>]_vars

WitC17_TwoLevels ==
    /\ query.asked
    /\ query.energy_type = "THERMONUCLEAR"
    /\ Stored("LEVEL_2", "THERMONUCLEAR") > 0
    /\ Stored("LEVEL_3", "THERMONUCLEAR") > 0
    /\ query.total = Stored("LEVEL_2", "THERMONUCLEAR") + Stored("LEVEL_3", "THERMONUCLEAR")

\* everything a caller can read from an element, its profile included
Content(element) == [element EXCEPT !.energy_profile = heap[element.energy_profile]]

\* the elements build_system has collected
Collected == {system.elements[i] : i \in 1..Len(system.elements)}

\* C18: create_element keeps no hidden state: two calls with the same atomic
\* number, made directly or by build_system and with other creations between
\* them, return the same outcome: None both times, or elements that agree in
\* every field (dominant_energy, element_type, energy_signature) and in the
\* whole profile (total_quanta, level totals, category quanta).
ThmC18_Repeatable ==
    /\ \A j, k \in 1..Len(results) :
          (FromFactory(j) /\ FromFactory(k) /\ Call(j).arg = Call(k).arg) =>
              \/ Value(j) = None /\ Value(k) = None
              \/ /\ IsElement(j) /\ IsElement(k)
                 /\ Content(Value(j).obj) = Content(Value(k).obj)
    /\ \A k \in 1..Len(results) : \A element \in Collected :
          (FromFactory(k) /\ Call(k).arg = element.atomic_number) =>
              /\ IsElement(k)
              /\ Content(Value(k).obj) = Content(element)
    /\ \A e1, e2 \in Collected :
          e1.atomic_number = e2.atomic_number => Content(e1) = Content(e2)

WitC18_AfterBuild ==
    /\ Len(system.elements) = 2
    /\ system.elements[2].atomic_number = 2
    /\ Len(results) = 2
    /\ Call(1) = Request("build_system", 2)
    /\ Call(2) = Request("create_element", 1)
    /\ IsElement(2)
    /\ Value(2).obj.energy_profile > system.elements[2].energy_profile
    /\ Content(Value(2).obj) = Content(system.elements[1])

\* the profile references of the elements the caller and the system hold
HeldProfiles ==
    {Value(k).obj.energy_profile : k \in {n \in 1..Len(results) : IsElement(n)}}
        \cup {element.energy_profile : element \in Collected}

\* how many held elements refer to the profile object ref
Holders(ref) ==
    Cardinality({k \in 1..Len(results) :
                    IsElement(k) /\ Value(k).obj.energy_profile = ref})
        + Cardinality({i \in 1..Len(system.elements) :
                          system.elements[i].energy_profile = ref})

\* C19: creating an element changes nothing but the new element: the element
\* table stays as loaded, every element returned or collected earlier keeps
\* its fields and its profile's contents, and no two elements share a
\* QuantumEnergyProfile object (nor does the one under construction share
\* its profile with a finished one). The ratio tables and the cluster map
\* are never assigned by the code and are constants here.
ThmC19_NothingElseChanges ==
    /\ [](/\ elements_data = ELEMENTS_DATA
          /\ \A ref \in HeldProfiles : Holders(ref) = 1
          /\ pc \in {"new", "profiled", "typed"} => frame.profile \notin HeldProfiles)
    /\ [][/\ elements_data' = elements_data
          /\ Len(results') >= Len(results)
          /\ \A k \in 1..Len(results) :
                /\ results'[k] = results[k]
                /\ IsElement(k) =>
                      heap'[Value(k).obj.energy_profile]
                          = heap[Value(k).obj.energy_profile]
          /\ Len(system'.elements) >= Len(system.elements)
          /\ \A i \in 1..Len(system.elements) :
                /\ system'.elements[i] = system.elements[i]
                /\ heap'[system.elements[i].energy_profile]
                      = heap[system.elements[i].energy_profile]]_vars

WitC19_TwoOwners ==
    /\ Len(results) = 2
    /\ IsElement(1) /\ IsElement(2)
    /\ Value(1).obj.atomic_number = 1
    /\ Value(2).obj.atomic_number = 118
    /\ Value(1).obj.energy_profile # Value(2).obj.energy_profile
    /\ ProfileOf(1).total_quanta = 1612
    /\ ProfileOf(2).total_quanta = 470400

\* the allocation of the k-th returned element: its total and level records
Allocation(k) ==
    [total_quanta |-> ProfileOf(k).total_quanta,
     level_quanta |-> ProfileOf(k).level_quanta]

\* C20: the allocation depends on atomic_mass only: two elements of equal
\* atomic_mass have the same total_quanta, level totals and category quanta,
\* whatever their atomic number, configuration, stability and ionization
\* energy.
ThmC20_MassOnly ==
    \A j, k \in 1..Len(results) :
        (IsElement(j) /\ IsElement(k)
            /\ Value(j).obj.atomic_mass = Value(k).obj.atomic_mass)
            => Allocation(j) = Allocation(k)

WitC20_SameMassOtherRecord ==
    /\ Len(results) >= 2
    /\ IsElement(1) /\ IsElement(2)
    /\ Value(1).obj.atomic_mass = Value(2).obj.atomic_mass
    /\ Value(1).obj.atomic_number # Value(2).obj.atomic_number
    /\ Value(1).obj.nucleus.stability # Value(2).obj.nucleus.stability
    /\ Value(1).obj.electrons.ionization_energy # Value(2).obj.electrons.ionization_energy
    /\ Value(1).obj.electrons.configuration # Value(2).obj.electrons.configuration
    /\ Value(1).obj.dominant_energy # Value(2).obj.dominant_energy
    /\ Allocation(1) = Allocation(2)
    /\ ProfileOf(1).total_quanta = 1612

\* how often an object occurs in a list
Occurrences(list, element) ==
    Cardinality({j \in 1..Len(list) : list[j] = element})

\* C21: after every iteration of build_system each element of `elements`
\* occurs in exactly one cluster list, the one of its element_type, and the
\* five cluster sizes add up to len(elements).
ThmC21_OneCluster ==
    /\ \A i \in 1..Len(system.elements) : \A et \in ElementType :
          Occurrences(system.clusters[et], system.elements[i])
              = IF et = system.elements[i].element_type THEN 1 ELSE 0
    /\ SumOver([et \in ElementType |-> Len(system.clusters[et])], ElementType)
          = Len(system.elements)

WitC21_AllClusters ==
    /\ frame.build.active
    /\ Len(system.elements) = 118
    /\ \A et \in ElementType : Len(system.clusters[et]) > 0

\* the finished build_system calls, as positions of the caller's log
Builds == {k \in 1..Len(results) : Call(k).op = "build_system"}

Min(a, b) == IF a < b THEN a ELSE b

\* a bound on the steps a running build_system has left: five for each z
\* still to come, less the steps taken for the current z
RemainingSteps ==
    5 * (frame.build.max_elements + 1 - frame.build.z)
        + (CASE pc = "idle" -> 4 [] pc = "new" -> 3 [] pc = "profiled" -> 2
             [] pc = "typed" -> 1 [] OTHER -> 0)

\* C22: on an empty system build_system(max_elements) ends, after exactly
\* max_elements lookups, with one element for each z in
\* 1..min(max_elements, 118) in ascending atomic_number; a miss is skipped
\* and the loop goes on to max_elements. It ends because the run's next step
\* is always possible (_calculate_energy_profile, whose only guard is its
\* position, never raises here) and each step lowers a bound that cannot go
\* below 0.
ThmC22_BuildCompletes ==
    /\ []((frame.build.active /\ Builds = {}) =>
            /\ frame.build.lookups \in {frame.build.z - 1, frame.build.z}
            /\ Len(system.elements) <= Min(frame.build.z, 118)
            /\ \A i \in 1..Len(system.elements) :
                  system.elements[i].atomic_number = i)
    /\ []((~frame.build.active /\ Cardinality(Builds) = 1) =>
            /\ frame.build.lookups = frame.build.max_elements
            /\ frame.build.z = frame.build.max_elements + 1
            /\ Len(system.elements) = Min(frame.build.max_elements, 118)
            /\ \A i \in 1..Len(system.elements) :
                  system.elements[i].atomic_number = i)
    /\ [](frame.build.active =>
            /\ RemainingSteps >= 0
            /\ pc \in {"idle", "new", "profiled", "typed", "done"}
            /\ pc = "idle" => ENABLED BuildSystemNext
            /\ pc = "profiled" => ENABLED DetermineElementType
            /\ pc = "typed" => ENABLED GenerateEnergySignature
            /\ pc = "done" => ENABLED BuildSystemAppend)
    /\ [][(frame.build.active /\ <<pc, frame>>' # <<pc, frame>>)
            => (RemainingSteps' < RemainingSteps \/ ~frame'.build.active)]_vars

WitC22_PastTheTable ==
    /\ ~frame.build.active
    /\ results = <<Returned(Request("build_system", MaxAtomicNumber), None)>>
    /\ frame.build.lookups = MaxAtomicNumber
    /\ MaxAtomicNumber > 118
    /\ Len(system.elements) = 118
    /\ system.elements[118].atomic_number = 118

\* C23: build_system keeps what earlier runs collected: after k finished
\* runs every atomic number z occurs in `elements`, and in the cluster lists,
\* once for each run whose max_elements reached z; k runs of build_system(n)
\* leave k * min(n, 118) elements.
ThmC23_RunsAccumulate ==
    ~frame.build.active =>
        /\ Len(system.elements)
              = SumOver([k \in Builds |-> Min(Call(k).arg, 118)], Builds)
        /\ \A z \in 1..118 :
              /\ Cardinality({i \in 1..Len(system.elements) :
                                system.elements[i].atomic_number = z})
                    = Cardinality({k \in Builds : Call(k).arg >= z})
              /\ SumOver([et \in ElementType |->
                             Cardinality({j \in 1..Len(system.clusters[et]) :
                                 system.clusters[et][j].atomic_number = z})],
                         ElementType)
                    = Cardinality({k \in Builds : Call(k).arg >= z})
        /\ (\A j, k \in Builds : Call(j).arg = Call(k).arg) =>
              \A k \in Builds :
                  Len(system.elements) = Cardinality(Builds) * Min(Call(k).arg, 118)

WitC23_TwoRuns ==
    /\ ~frame.build.active
    /\ Cardinality(Builds) = 2
    /\ \A k \in Builds : Call(k).arg = 2
    /\ Len(system.elements) = 4
    /\ system.elements[3].atomic_number = 1
    /\ Len(system.clusters["NON_METALS"]) = 2

\* the table has a row for z whose mass gives no quantum
FaultyRow(z) ==
    \E i \in Matching(elements_data, z) : TotalOf(elements_data[i]) = 0

\* C24: no exception leaves create_element: when the constructor raises for
\* a record of the table (total_quanta = 0 divides by zero), the call returns
\* None, the value a lookup miss returns, and build_system omits the element
\* and goes on with the next z.
ThmC24_FaultBecomesNone ==
    /\ [](\A k \in 1..Len(results) :
            FromFactory(k) =>
                /\ (Value(k) = None)
                      <=> (Matching(elements_data, Call(k).arg) = {}
                              \/ FaultyRow(Call(k).arg))
                /\ IsElement(k) => ProfileOf(k).total_quanta > 0)
    /\ [](\A element \in Collected : ~FaultyRow(element.atomic_number))
    /\ []((~frame.build.active /\ Cardinality(Builds) = 1) =>
            /\ frame.build.lookups = frame.build.max_elements
            /\ \A z \in 1..frame.build.max_elements :
                  Cardinality({i \in 1..Len(system.elements) :
                                  system.elements[i].atomic_number = z})
                      = IF Matching(elements_data, z) = {} \/ FaultyRow(z)
                        THEN 0 ELSE 1)
    /\ [](pc = "raised" => frame.create.active /\ ENABLED CatchException)
    /\ [][pc = "raised" =>
            /\ pc' = "idle"
            /\ system' = system
            /\ IF frame.build.active
               THEN /\ frame'.build.active
                    /\ frame'.build.z = frame.build.z + 1
                    /\ results' = results
               ELSE results' = Append(results, Returned(frame.request, None))]_vars

WitC24_OmittedThenNone ==
    /\ Len(results) = 2
    /\ Call(1) = Request("build_system", 3)
    /\ Len(system.elements) = 2
    /\ system.elements[1].atomic_number = 1
    /\ system.elements[2].atomic_number = 3
    /\ Call(2) = Request("create_element", 2)
    /\ Value(2) = None
    /\ Matching(elements_data, 2) # {}

\* the elements create_element has made: returned to the caller or collected
FactoryElements ==
    {Value(k).obj : k \in {n \in 1..Len(results) : FromFactory(n) /\ IsElement(n)}}
        \cup Collected

InertNumbers == {10, 18, 36, 54, 86, 118}

\* C25: over the 118 records, the elements classified Light / InertGases are
\* exactly those of atomic number 10, 18, 36, 54, 86 and 118, whose
\* configuration ends in p6; helium ('1s2') and palladium ('[Kr] 4d10') are
\* Electricity / MediumMetals.
ThmC25_InertGases ==
    \A element \in FactoryElements :
        /\ (element.dominant_energy = "LIGHT")
              <=> (element.atomic_number \in InertNumbers)
        /\ (element.element_type = "INERT_GASES")
              <=> (element.atomic_number \in InertNumbers)
        /\ (element.atomic_number \in InertNumbers)
              <=> EndsWith(StrLower(element.electrons.configuration), p6)
        /\ element.atomic_number = 2 =>
              /\ element.electrons.configuration = <<"1", "s", "sup2">>
              /\ element.dominant_energy = "ELECTRICITY"
              /\ element.element_type = "MEDIUM_METALS"
        /\ element.atomic_number = 46 =>
              /\ element.electrons.configuration
                    = <<"[", "K", "r", "]", " ", "4", "d", "sup1", "sup0">>
              /\ element.dominant_energy = "ELECTRICITY"
              /\ element.element_type = "MEDIUM_METALS"

WitC25_WholeTable ==
    /\ Len(system.elements) = 118
    /\ {element.atomic_number : element \in
            {e \in Collected : e.dominant_energy = "LIGHT"}} = InertNumbers
    /\ Len(system.clusters["INERT_GASES"]) = 6
    /\ system.elements[2].element_type = "MEDIUM_METALS"
    /\ system.elements[46].dominant_energy = "ELECTRICITY"

\* the sum of the quanta column of a block of report lines
RECURSIVE QuantaSum(_, _)
QuantaSum(rows, n) == IF n = 0 THEN 0 ELSE rows[n].quanta + QuantaSum(rows, n - 1)

\* C26: for an element with total_quanta > 0 the nine values
\* get_total_energy_quanta returns, as the reports collect them, add up to
\* at most total_quanta and at least total_quanta - 8.
ThmC26_CategorySumBounds ==
    (report.op \in {"print_detailed_energy_report",
                    "generate_energy_profile_visualization"} /\ TotalQuanta > 0) =>
        /\ Len(report.overall) = 9
        /\ {report.overall[i].energy_type : i \in 1..9} = EnergyType
        /\ QuantaSum(report.overall, 9) <= TotalQuanta
        /\ QuantaSum(report.overall, 9) >= TotalQuanta - 8

WitC26_EightShort ==
    /\ report.op = "print_detailed_energy_report"
    /\ TotalQuanta = 830
    /\ QuantaSum(report.overall, 9) = TotalQuanta - 8

\* the lines of a report, level blocks and overall block together
ReportRows ==
    {report.overall[i] : i \in 1..Len(report.overall)}
        \cup UNION {{report.levels[n].rows[i] : i \in 1..Len(report.levels[n].rows)} :
                       n \in 1..Len(report.levels)}

\* the denominators of the divisions a line was computed with
Denominators(row) ==
    row.percentage.by \cup (IF "scaled" \in DOMAIN row THEN row.scaled.by ELSE {})

\* C30: the three report methods never divide by zero: every division they
\* perform has a strictly positive denominator, and a level whose level total
\* is 0 while total_quanta > 0 gets the percentage 0 for each of its
\* categories, without a division.
ThmC30_ReportsDivideSafely ==
    report.op # "none" =>
        /\ ~report.raised
        /\ \A row \in ReportRows :
              /\ ~row.percentage.raised
              /\ \A d \in Denominators(row) : d > 0
        /\ \A n \in 1..Len(report.levels) :
              report.levels[n].total_quanta = 0 =>
                  \A i \in 1..Len(report.levels[n].rows) :
                      /\ report.levels[n].rows[i].percentage.value = FloatZero
                      /\ report.levels[n].rows[i].percentage.by = {}

WitC30_EmptyOuterLevel ==
    /\ report.op = "generate_energy_profile_visualization"
    /\ TotalQuanta \in 1..8
    /\ report.levels[1].level = "LEVEL_1"
    /\ report.levels[1].total_quanta = 0
    /\ Len(report.levels[1].rows) = 5
    /\ \A i \in 1..5 : report.levels[1].rows[i].percentage.value = FloatZero
    /\ \E i \in 1..9 : report.overall[i].percentage.value # FloatZero

\* what one more quantum of total_quanta adds to the stored total of a level
Step(l) == LevelTotals(TotalQuanta + 1)[l] - LevelTotal(l)

\* C27: going from total_quanta = t to t + 1, the Outer and the Middle level
\* totals never decrease and rise by 0 or 1; the reconciled Inner total moves by
\* at most 1 in either direction, so it is the only one that can decrease.
ThmC27_OneQuantumMore ==
    Profiled =>
        /\ Step("LEVEL_1") \in {0, 1}
        /\ Step("LEVEL_2") \in {0, 1}
        /\ Step("LEVEL_3") \in {-1, 0, 1}

WitC27_InnerDrops ==
    /\ pc = "done"
    /\ TotalQuanta = 24
    /\ LevelTotal("LEVEL_3") = 15
    /\ Step("LEVEL_3") = -1
    /\ Step("LEVEL_1") = 1
    /\ Step("LEVEL_2") = 1

\* v3's _calculate_energy_profile has stored its profile
V3Profiled == pc3 # "new"

V3LevelSum ==
    self3.energy_profile.level_distribution[1]
        + self3.energy_profile.level_distribution[2]
        + self3.energy_profile.level_distribution[3]

\* C28: on the same atomic_mass v6's Outer and Middle level totals are v3's
\* level_distribution[1] and [2], v6's five Outer category quanta are v3's five
\* first-level energy_quanta, and v6's Inner total exceeds v3's
\* level_distribution[3] by total_quanta minus the sum of v3's three level
\* values, an amount in 0..2.
ThmC28_ReconciliationOnly ==
    (Profiled /\ V3Profiled) =>
        /\ self3.energy_profile.total_quanta = TotalQuanta
        /\ LevelTotal("LEVEL_1") = self3.energy_profile.level_distribution[1]
        /\ LevelTotal("LEVEL_2") = self3.energy_profile.level_distribution[2]
        /\ DOMAIN self.energy_profile.level_quanta["LEVEL_1"].energy_distribution
              = {"HEAT", "LIGHT", "MAGNETISM", "ELECTRICITY", "RADIOWAVES"}
        /\ \A en \in {"HEAT", "LIGHT", "MAGNETISM", "ELECTRICITY", "RADIOWAVES"} :
              Quanta("LEVEL_1", en) = self3.energy_profile.energy_quanta[en]
        /\ LevelTotal("LEVEL_3") - self3.energy_profile.level_distribution[3]
              = TotalQuanta - V3LevelSum
        /\ TotalQuanta - V3LevelSum \in 0..2

WitC28_V3TwoShort ==
    /\ pc = "done"
    /\ pc3 = "done"
    /\ self.atomic_number = 1
    /\ TotalQuanta = 1612
    /\ V3LevelSum = 1610
    /\ LevelTotal("LEVEL_3") = self3.energy_profile.level_distribution[3] + 2
    /\ self3.energy_profile.energy_quanta["HEAT"] = Quanta("LEVEL_1", "HEAT")
    /\ Quanta("LEVEL_1", "HEAT") = 77

\* the record under construction is a row of ELEMENTS_DATA
TableRecord ==
    /\ self.atomic_number \in 1..Len(elements_data)
    /\ \E row \in {elements_data[self.atomic_number]} :
          /\ self.atomic_mass = row.atomic_mass
          /\ self.electrons.configuration = row.configuration
          /\ self.nucleus.stability = row.stability
          /\ self.electrons.ionization_energy = row.ionization_energy

\* stability in [0, 1] and 0 < ionization_energy <= 24.587
InReferenceRange ==
    /\ ~FloatLess(IntToFloat(1), self.nucleus.stability)
    /\ FloatLess(FloatZero, self.electrons.ionization_energy)
    /\ ~FloatLess(ReferenceIonization, self.electrons.ionization_energy)

\* the vibrational coefficient has been stored (total_quanta > 0)
CoefficientStored == pc \in {"profiled", "typed", "done"}

Coefficient == self.energy_profile.vibrational_coefficient

\* the float next above f
NextAbove(f) == Normalised(Increment(f.m), f.e)

====
